---- MODULE Spec2Model ----
(***************************************************************************)
(* Trust Gateway: trust scoring, tier resolution, authorization gate,      *)
(* signed and hash-chained action receipts, capability tokens, and the     *)
(* request handlers (register, record_action, update_tier) that run as     *)
(* asyncio coroutines over one shared database.                            *)
(*                                                                         *)
(* Scores are Python floats in the source.  Here a score is an integer     *)
(* number of 1/Scale units (0.2 is 2000).  A string is a sequence of       *)
(* symbols; a hex digest is one symbol.  HMAC-SHA256 and SHA-256 are ideal *)
(* (collision-free) functions of their input.                              *)
(***************************************************************************)
EXTENDS Integers, Sequences, FiniteSets, TLC

VARIABLES
    agents,        \* agents table: agent id -> row
    receipts,      \* action_receipts table, in insertion order
    history,       \* trust_history table, in insertion order
    tiers,         \* trust_tiers table: tier number -> row
    clock,         \* the last value datetime.utcnow() returned
    next_receipt,  \* how many receipt ids uuid4() has handed out
    tier_updates,  \* how many update_tier requests were accepted
    ops,           \* how many record_action and update_tier requests were accepted
    slots,         \* how many handlers may be in flight at once in this run
    tasks,         \* the request handlers in flight, one per slot
    response,      \* the response most recently sent to a client
    overlapped,    \* agents for which two record_action calls overlapped
    call           \* a call of a pure engine function: its arguments and result

vars == <<agents, receipts, history, tiers, clock, next_receipt, tier_updates,
          ops, slots, tasks, response, overlapped, call>>

dbvars == <<agents, receipts, history, tiers>>

-----------------------------------------------------------------------------
(* Bounds of the model *)

\* A run is either sequential (one handler at a time) or concurrent (NumTasks
\* handlers interleave at their awaits).  A sequential run registers up to
\* MaxAgents agents and accepts MaxOps further requests (record_action,
\* update_tier); a concurrent run registers up to MaxOverlapAgents agents and
\* accepts MaxOverlapOps further requests.  No run records more than MaxReceipts
\* actions or updates tiers more than MaxTierUpdates times.
MaxAgents == 2
MaxOps == 3
MaxReceipts == 3
MaxTierUpdates == 1
NumTasks == 2
MaxOverlapAgents == 1
MaxOverlapOps == 2
\* A client run is sequential too: it registers up to MaxClientAgents agents and
\* accepts MaxClientOps record_action and update_tier requests, together with
\* either any number of authorize, authorize_batch and trust-breakdown requests,
\* or one issue_token request whose token is then verified while the clock runs
\* up to MaxClock.
MaxClientAgents == 1
MaxClientOps == 2
MaxClock == 3

AgentIds == 1..MaxAgents
Tasks == 1..NumTasks

-----------------------------------------------------------------------------
(* Numbers *)

Scale == 10000

Min(a, b) == IF a <= b THEN a ELSE b
Max(a, b) == IF a >= b THEN a ELSE b

RECURSIVE Pow(_, _)
Pow(b, e) == IF e = 0 THEN 1 ELSE b * Pow(b, e - 1)

\* The digits of r/den after the point, down to the unit of Scale, for 0 <= r < den.
RECURSIVE Frac(_, _, _)
Frac(r, den, place) ==
    IF place = 0 THEN 0
    ELSE ((r * 10) \div den) * place + Frac((r * 10) % den, den, place \div 10)

\* num/den as a score, for num >= 0 and den > 0.
FixDiv(num, den) == (num \div den) * Scale + Frac(num % den, den, Scale \div 10)

\* round(x, digits kept = Scale/unit): to the nearest multiple of unit, ties to even.
RoundTo(x, unit) ==
    LET q == x \div unit
        r == x % unit
    IN  IF 2 * r > unit \/ (2 * r = unit /\ q % 2 = 1) THEN (q + 1) * unit ELSE q * unit

-----------------------------------------------------------------------------
(* Optional values and strings *)

None == [some |-> FALSE, val |-> <<>>]
Some(v) == [some |-> TRUE, val |-> v]

\* f"{a}|{b}|..." : the fields joined by the delimiter
Delim == <<"|">>

RECURSIVE Join(_)
Join(fields) ==
    IF Len(fields) = 0 THEN <<>>
    ELSE IF Len(fields) = 1 THEN fields[1]
    ELSE fields[1] \o Delim \o Join(Tail(fields))

\* hmac.new(key, message, sha256).hexdigest()
HmacSha256(key, message) == <<ToString(<<"hmac-sha256", key, message>>)>>

\* hashlib.sha256(message).hexdigest()
Sha256(message) == <<ToString(<<"sha256", message>>)>>

-----------------------------------------------------------------------------
(* TrustEngine: the scoring model *)

SecretKey == <<"secret-key">>
JwtSecret == <<"jwt-secret">>

AttestationTypes == {"x509", "jwt", "api_key", "self_declared"}

\* An agent's identity facts: name, provider, config_hash are strings (empty when
\* missing), capabilities is the length of the capability list, spiffe_id and
\* attestation are optional.
Flag(present) == IF present THEN Scale ELSE 0

\* Every attestation counted as the strongest
attestation_strength_Flat(attestation) == IF attestation.some THEN Scale ELSE 0

attestation_strength(attestation) ==
    IF attestation.some
    THEN IF attestation.val = "x509" THEN Scale
         ELSE IF attestation.val = "jwt" THEN (9 * Scale) \div 10
         ELSE IF attestation.val = "api_key" THEN (6 * Scale) \div 10
         ELSE (3 * Scale) \div 10
    ELSE 0

identity_factors(agent) ==
    [has_name |-> Flag(agent.name # <<>>),
     has_provider |-> Flag(agent.provider # <<>>),
     has_config_hash |-> Flag(agent.config_hash # <<>>),
     has_capabilities |-> Flag(agent.capabilities > 0),
     capabilities_count |-> Min((agent.capabilities * Scale) \div 10, Scale),
     has_spiffe_id |-> Flag(agent.spiffe_id.some),
     has_attestation |-> Flag(agent.attestation.some),
     attestation_strength |-> attestation_strength(agent.attestation)]

calculate_identity_score(agent) ==
    LET factors == identity_factors(agent)
        base_score == ( factors.has_name * 15
                      + factors.has_provider * 15
                      + factors.has_config_hash * 15
                      + factors.has_capabilities * 15
                      + factors.capabilities_count * 10
                      + factors.has_spiffe_id * 15
                      + factors.attestation_strength * 15 ) \div 100
    IN  Min(Scale, base_score)

\* math.exp(-0.1 * n) for n = 1, 2, ..., to the unit of Scale
ExpDecay == <<9048, 8187, 7408, 6703, 6065, 5488, 4965, 4493>>

calculate_config_score(agent) ==
    IF agent.config_changes = 0 THEN Scale
    ELSE ExpDecay[Min(agent.config_changes, Len(ExpDecay))]

\* Contributions with success and violation exchanged
Contribution_Swapped(result) ==
    IF result = "success" THEN -10
    ELSE IF result = "failure" THEN 3
    ELSE IF result = "violation" THEN 10
    ELSE 0

\* The contribution of one outcome, in tenths: +1.0, +0.3, -1.0
Contribution(result) ==
    IF result = "success" THEN 10
    ELSE IF result = "failure" THEN 3
    ELSE IF result = "violation" THEN -10
    ELSE 0

\* A weight that does not decay with the age of the receipt
Weight_Flat(i, n) == Pow(20, n - 1)

\* math.pow(0.95, i) = 19^i / 20^i; every weight of a history of n receipts is
\* taken over the common denominator 20^(n-1).
Weight(i, n) == Pow(19, i) * Pow(20, n - 1 - i)

\* The loop of calculate_behavior_score from index i (0-based) on:
\* <<weighted_score in tenths, total_weight>>.
RECURSIVE WeighLoop(_, _, _, _)
WeighLoop(results, i, weighted_score, total_weight) ==
    IF i >= Len(results) THEN <<weighted_score, total_weight>>
    ELSE WeighLoop(results, i + 1,
                   weighted_score + Weight(i, Len(results)) * Contribution(results[i + 1]),
                   total_weight + Weight(i, Len(results)))

\* A score that is a neutral 0.5 for an agent with no history
calculate_behavior_score_Neutral(results) ==
    IF Len(results) = 0 THEN Scale \div 2
    ELSE LET acc == WeighLoop(results, 0, 0, 0)
             final_score == IF acc[1] <= 0 THEN 0 ELSE FixDiv(acc[1], 10 * acc[2])
         IN  Max(0, Min(Scale, final_score))

\* results: the result fields of the receipts, newest first
calculate_behavior_score(results) ==
    IF Len(results) = 0 THEN 0
    ELSE LET acc == WeighLoop(results, 0, 0, 0)
             final_score == IF acc[1] <= 0 THEN 0 ELSE FixDiv(acc[1], 10 * acc[2])
         IN  Max(0, Min(Scale, final_score))

behavior_total_actions(results) == Len(results)

\* self.weights, in tenths
WeightIdentity == 3
WeightConfig == 2
WeightBehavior == 5

\* The Sybil floor the callers apply: max(0.1, composite)
SybilFloor == 1000

\* A composite score with the floor built into the formula
calculate_composite_score_Floored(identity, config, behavior) ==
    LET composite == ( WeightIdentity * identity
                     + WeightConfig * config
                     + WeightBehavior * behavior ) \div 10
    IN  Max(SybilFloor, Min(Scale, composite))

calculate_composite_score(identity, config, behavior) ==
    LET composite == ( WeightIdentity * identity
                     + WeightConfig * config
                     + WeightBehavior * behavior ) \div 10
    IN  Max(0, Min(Scale, composite))

ApplyFloor(composite) == Max(SybilFloor, composite)

-----------------------------------------------------------------------------
(* TrustEngine: the tier resolver *)

\* tiers is a list of rows [tier, min_score, max_score, permissions].
\* sorted(tiers, key=tier, reverse=True), then the first row with
\* score >= min_score; scanned here by taking the largest remaining tier number.
RECURSIVE ScanTiers(_, _, _)
ScanTiers(score, tier_list, left) ==
    IF left = {} THEN 0
    ELSE LET i == CHOOSE j \in left : \A k \in left : tier_list[j].tier >= tier_list[k].tier
         IN  IF score >= tier_list[i].min_score
             THEN tier_list[i].tier
             ELSE ScanTiers(score, tier_list, left \ {i})

\* determine_tier scanning upwards: the lowest tier whose min_score is reached
determine_tier_Ascending(score, tier_list) ==
    LET reached == {i \in DOMAIN tier_list : score >= tier_list[i].min_score}
    IN  IF reached = {} THEN 0
        ELSE tier_list[CHOOSE i \in reached :
                          \A k \in reached : tier_list[i].tier <= tier_list[k].tier].tier

determine_tier(score, tier_list) == ScanTiers(score, tier_list, DOMAIN tier_list)

\* get_permitted_actions_for_tier: the first row with that tier number
RECURSIVE FindTier(_, _, _)
FindTier(tier, tier_list, i) ==
    IF i > Len(tier_list) THEN <<>>
    ELSE IF tier_list[i].tier = tier
         THEN IF \E k \in DOMAIN tier_list[i].permissions : tier_list[i].permissions[k] = "*"
              THEN <<"*">>
              ELSE tier_list[i].permissions
         ELSE FindTier(tier, tier_list, i + 1)

\* The permission list of the row as it is stored, wildcard or not
get_permitted_actions_for_tier_Verbatim(tier, tier_list) ==
    LET rows == {i \in DOMAIN tier_list : tier_list[i].tier = tier}
    IN  IF rows = {} THEN <<>>
        ELSE tier_list[CHOOSE i \in rows : \A k \in rows : i <= k].permissions

get_permitted_actions_for_tier(tier, tier_list) == FindTier(tier, tier_list, 1)

-----------------------------------------------------------------------------
(* TrustEngine: receipts *)

\* f"{agent_id}|{action}|{result}|{timestamp}|{previous_hash or ''}"
ReceiptMessage(agent_id, action, result, timestamp, previous_hash) ==
    Join(<<agent_id, action, result, timestamp,
           IF previous_hash.some THEN previous_hash.val ELSE <<>> >>)

\* sign_receipt leaving the result out of the signed message
sign_receipt_NoResult(agent_id, action, result, timestamp, previous_hash) ==
    HmacSha256(SecretKey, Join(<<agent_id, action, timestamp,
                                 IF previous_hash.some THEN previous_hash.val ELSE <<>> >>))

sign_receipt(agent_id, action, result, timestamp, previous_hash) ==
    HmacSha256(SecretKey, ReceiptMessage(agent_id, action, result, timestamp, previous_hash))

\* hmac.compare_digest(signature, expected)
verify_receipt(agent_id, action, result, timestamp, signature, previous_hash) ==
    signature = sign_receipt(agent_id, action, result, timestamp, previous_hash)

hash_receipt(receipt_id, signature) == Sha256(Join(<<receipt_id, signature>>))

-----------------------------------------------------------------------------
(* TrustEngine: the authorization gate *)

\* f"{x:.2f}"
Format2f(x) == ToString(RoundTo(x, Scale \div 100))

\* check_authorization with a strict score comparison
check_authorization_StrictScore(agent_tier, required_tier, agent_score, required_score) ==
    IF agent_tier >= required_tier /\ agent_score > required_score
    THEN [allowed |-> TRUE, reason |-> <<"Authorized">>]
    ELSE IF agent_tier < required_tier
    THEN [allowed |-> FALSE,
          reason |-> <<"Insufficient trust tier (need tier ", ToString(required_tier),
                       ", have ", ToString(agent_tier), ")">>]
    ELSE [allowed |-> FALSE,
          reason |-> <<"Insufficient trust score (need ", Format2f(required_score),
                       ", have ", Format2f(agent_score), ")">>]

\* check_authorization testing the score before the tier
check_authorization_ScoreFirst(agent_tier, required_tier, agent_score, required_score) ==
    IF agent_tier >= required_tier /\ agent_score >= required_score
    THEN [allowed |-> TRUE, reason |-> <<"Authorized">>]
    ELSE IF agent_score < required_score
    THEN [allowed |-> FALSE,
          reason |-> <<"Insufficient trust score (need ", Format2f(required_score),
                       ", have ", Format2f(agent_score), ")">>]
    ELSE [allowed |-> FALSE,
          reason |-> <<"Insufficient trust tier (need tier ", ToString(required_tier),
                       ", have ", ToString(agent_tier), ")">>]

check_authorization(agent_tier, required_tier, agent_score, required_score) ==
    IF agent_tier >= required_tier /\ agent_score >= required_score
    THEN [allowed |-> TRUE, reason |-> <<"Authorized">>]
    ELSE IF agent_tier < required_tier
    THEN [allowed |-> FALSE,
          reason |-> <<"Insufficient trust tier (need tier ", ToString(required_tier),
                       ", have ", ToString(agent_tier), ")">>]
    ELSE [allowed |-> FALSE,
          reason |-> <<"Insufficient trust score (need ", Format2f(required_score),
                       ", have ", Format2f(agent_score), ")">>]

-----------------------------------------------------------------------------
(* TrustEngine: capability tokens (python-jose, HS256) *)

\* Times are counted in ticks; a JWT carries whole seconds
\* (timegm(dt.utctimetuple()) drops the fraction).
TicksPerSecond == 2

ToSeconds(t) == t \div TicksPerSecond

JwtHeader == [alg |-> "HS256", typ |-> "JWT"]

\* The signed part of a token: the encoded header and the encoded claims
SigningInput(header, payload) ==
    <<header.alg, header.typ, payload.sub, payload.name, payload.tier,
      payload.trust_score, payload.permitted_actions, payload.iat, payload.exp,
      payload.iss>>

\* jwt.encode(payload, key, algorithm="HS256")
JwtEncode(payload, key) ==
    [header |-> JwtHeader, payload |-> payload,
     signature |-> HmacSha256(key, SigningInput(JwtHeader, payload))]

\* issue_jwt_token signing with the receipt key instead of the JWT secret
issue_jwt_token_ReceiptKey(agent_id, agent_name, tier, composite_score, permitted_actions, expires_in, now) ==
    JwtEncode([sub |-> agent_id,
               name |-> agent_name,
               tier |-> tier,
               trust_score |-> RoundTo(composite_score, Scale \div 1000),
               permitted_actions |-> permitted_actions,
               iat |-> ToSeconds(now),
               exp |-> ToSeconds(now) + expires_in,
               iss |-> <<"trust-gateway">>],
              SecretKey)

\* now: datetime.utcnow() at the call
issue_jwt_token(agent_id, agent_name, tier, composite_score, permitted_actions, expires_in, now) ==
    JwtEncode([sub |-> agent_id,
               name |-> agent_name,
               tier |-> tier,
               trust_score |-> RoundTo(composite_score, Scale \div 1000),
               permitted_actions |-> permitted_actions,
               iat |-> ToSeconds(now),
               exp |-> ToSeconds(now) + expires_in,
               iss |-> <<"trust-gateway">>],
              JwtSecret)

\* jwt.decode(token, key, algorithms=["HS256"]): the signature, then the expiry
\* (rejected when exp < now in whole seconds); raised is a JWTError.
JwtDecode(token, key, now) ==
    IF /\ token.header.alg = "HS256"
       /\ token.signature = HmacSha256(key, SigningInput(token.header, token.payload))
       /\ ~(token.payload.exp < ToSeconds(now))
    THEN [raised |-> FALSE, payload |-> token.payload]
    ELSE [raised |-> TRUE, payload |-> <<>>]

\* verify_jwt_token answering with the agent's present tier instead of the
\* tier the token carries
verify_jwt_token_Live(token, now) ==
    LET decoded == JwtDecode(token, JwtSecret, now)
        holders == {a \in DOMAIN agents :
                       ~decoded.raised /\ decoded.payload.sub = <<"agent-", ToString(a)>>}
    IN  IF holders = {} THEN decoded
        ELSE [decoded EXCEPT !.payload.tier = agents[CHOOSE a \in holders : TRUE].tier]

verify_jwt_token(token, now) == JwtDecode(token, JwtSecret, now)

-----------------------------------------------------------------------------
(* Database *)

AllPermissions == <<"*">>

Tier0Permissions == <<"read_config", "view_status">>

Tier1Permissions == <<"read_config", "view_status", "send_notification", "read_data">>

Tier2Permissions == <<"read_config", "view_status", "send_notification", "read_data",
                      "write_data", "call_api", "send_email">>

\* _init_default_tiers
DefaultTiers ==
    0 :> [min_score |-> 0, max_score |-> (2 * Scale) \div 10,
          permissions |-> Tier0Permissions]
    @@ 1 :> [min_score |-> (2 * Scale) \div 10, max_score |-> (5 * Scale) \div 10,
             permissions |-> Tier1Permissions]
    @@ 2 :> [min_score |-> (5 * Scale) \div 10, max_score |-> (8 * Scale) \div 10,
             permissions |-> Tier2Permissions]
    @@ 3 :> [min_score |-> (8 * Scale) \div 10, max_score |-> Scale,
             permissions |-> AllPermissions]

TierRow(table, n) ==
    [tier |-> n, min_score |-> table[n].min_score, max_score |-> table[n].max_score,
     permissions |-> table[n].permissions]

\* The ascending list of the tier numbers of a table
RECURSIVE TierNumbers(_)
TierNumbers(left) ==
    IF left = {} THEN <<>>
    ELSE LET n == CHOOSE m \in left : \A k \in left : m <= k
         IN  <<n>> \o TierNumbers(left \ {n})

\* get_tiers: every row, ordered by tier
TierList(table) ==
    LET numbers == TierNumbers(DOMAIN table)
    IN  [i \in 1..Len(numbers) |-> TierRow(table, numbers[i])]

get_tiers == TierList(tiers)

\* create_agent leaving composite_score at zero instead of the floor
NewAgentRow_ZeroComposite(reg) ==
    [name |-> reg.name, provider |-> reg.provider, spiffe_id |-> reg.spiffe_id,
     config_hash |-> reg.config_hash, capabilities |-> reg.capabilities,
     attestation |-> reg.attestation,
     identity_score |-> 0, config_score |-> 0, behavior_score |-> 0,
     composite_score |-> 0, tier |-> 0, config_changes |-> 0]

\* create_agent: the row as inserted (column defaults for what is not given)
NewAgentRow(reg) ==
    [name |-> reg.name, provider |-> reg.provider, spiffe_id |-> reg.spiffe_id,
     config_hash |-> reg.config_hash, capabilities |-> reg.capabilities,
     attestation |-> reg.attestation,
     identity_score |-> 0, config_score |-> 0, behavior_score |-> 0,
     composite_score |-> SybilFloor, tier |-> 0, config_changes |-> 0]

\* update_agent_scores: the row as rewritten
ScoredRow(row, identity, config, behavior, composite, tier) ==
    [row EXCEPT !.identity_score = identity, !.config_score = config,
                !.behavior_score = behavior, !.composite_score = composite,
                !.tier = tier]

HistoryPoint(agent_id, composite, tier) ==
    [agent_id |-> agent_id, composite_score |-> composite, tier |-> tier,
     trigger |-> "score_update"]

\* The receipts of one agent, in insertion order
AgentReceipts(table, agent_id) == SelectSeq(table, LAMBDA r : r.agent_id = agent_id)

\* get_receipts: ORDER BY timestamp DESC fixes the order only up to ties, so every
\* listing of the agent's receipts with non-increasing timestamps is a possible answer.
ReceiptListings(table, agent_id) ==
    LET rows == AgentReceipts(table, agent_id)
        n == Len(rows)
        perms == {p \in [1..n -> 1..n] : \A i, j \in 1..n : i # j => p[i] # p[j]}
    IN  {[i \in 1..n |-> rows[p[i]]] :
            p \in {q \in perms : \A i \in 1..n : \A j \in 1..n :
                                    i < j => rows[q[i]].timestamp >= rows[q[j]].timestamp}}

get_receipts(agent_id) == ReceiptListings(receipts, agent_id)

\* get_last_receipt: get_receipts(limit=1), its first row or None
get_last_receipt(agent_id) ==
    {IF Len(listing) = 0 THEN None ELSE Some(listing[1]) : listing \in get_receipts(agent_id)}

Results(listing) == [i \in 1..Len(listing) |-> listing[i].result]

-----------------------------------------------------------------------------
(* Requests *)

UnknownAgent == MaxAgents + 1

AgentUuid(agent_id) == <<"agent-", ToString(agent_id)>>
ReceiptUuid(n) == <<"receipt-", ToString(n)>>

\* datetime.isoformat()
IsoFormat(timestamp) == <<ToString(timestamp)>>

\* Registration requests: a bare identity, a fully attested one, and one with an
\* empty capability list.
Registrations ==
    {[name |-> <<"n">>, provider |-> <<"p">>, config_hash |-> <<"h">>,
      capabilities |-> c, spiffe_id |-> None, attestation |-> None] : c \in {0, 1}}
    \cup
    {[name |-> <<"n">>, provider |-> <<"p">>, config_hash |-> <<"h">>,
      capabilities |-> 10, spiffe_id |-> Some(<<"spiffe://d/a">>),
      attestation |-> Some("x509")]}

ValidResults == {"success", "failure", "violation"}
RequestResults == ValidResults \cup {"bogus"}
RecordedActions == {<<"send_email">>}

\* Caller-supplied timestamps: one that lies before every server timestamp.
SuppliedTimes == {0}

\* PUT /tiers/{n} bodies
TierEdits ==
    {[min_score |-> (9 * Scale) \div 10, max_score |-> Scale,
      permissions |-> Tier0Permissions],
     [min_score |-> 0, max_score |-> Scale, permissions |-> AllPermissions]}

TierNums == 0..4

-----------------------------------------------------------------------------
(* Handlers.  A handler is a coroutine: other handlers run only while it awaits, *)
(* so each action below is one database call together with the code that runs   *)
(* up to the next await.                                                         *)

NoResp == [status |-> "none", op |-> "none"]

Idle == [pc |-> "idle", req |-> <<>>, loc |-> <<>>]

\* Handler slots are interchangeable: a request takes the first free one
FreeSlot(t) == /\ t <= slots
               /\ tasks[t].pc = "idle"
               /\ \A u \in Tasks : u < t => tasks[u].pc # "idle"

ClientRun == call.fn = "client"

\* A run that also follows a client or a caller of the engine is kept short
ShortRun == call.fn # "none"

AgentBudget ==
    IF ShortRun THEN MaxClientAgents
    ELSE IF slots = 1 THEN MaxAgents ELSE MaxOverlapAgents
OpsBudget ==
    IF ShortRun THEN MaxClientOps
    ELSE IF slots = 1 THEN MaxOps ELSE MaxOverlapOps

RegisterPcs == {"reg_create", "reg_get_tiers", "reg_update", "reg_broadcast"}
RecordPcs == {"ra_get_agent", "ra_get_last", "ra_create", "ra_get_receipts",
              "ra_get_tiers", "ra_update", "ra_notify"}
UpdateTierPcs == {"ut_get", "ut_update", "ut_read"}

\* Agent ids a client can name: those a completed register call returned
Registering == {tasks[t].loc.agent_id :
                   t \in {u \in Tasks : tasks[u].pc \in RegisterPcs \ {"reg_create"}}}
KnownAgents == DOMAIN agents \ Registering

Begin(t, pc, req) ==
    /\ tasks' = [tasks EXCEPT ![t] = [pc |-> pc, req |-> req, loc |-> <<>>]]
    /\ UNCHANGED response

Step(t, pc, loc) ==
    /\ tasks' = [tasks EXCEPT ![t] = [@ EXCEPT !.pc = pc, !.loc = loc]]
    /\ UNCHANGED response

Return(t, resp) ==
    /\ tasks' = [tasks EXCEPT ![t] = Idle]
    /\ response' = resp

(* POST /agents/register *)

\* AgentRegistration.validate_capabilities
validate_capabilities(v) == v >= 1

RegisterStart(t) ==
    /\ FreeSlot(t)
    /\ Cardinality(DOMAIN agents)
         + Cardinality({u \in Tasks : tasks[u].pc = "reg_create"}) < AgentBudget
    /\ \E reg \in Registrations :
          IF validate_capabilities(reg.capabilities)
          THEN Begin(t, "reg_create", reg)
          ELSE Return(t, [status |-> "422", op |-> "register"])
    /\ UNCHANGED <<agents, receipts, history, tiers, clock, next_receipt, tier_updates,
                   ops, slots, overlapped, call>>

\* db.create_agent, then the initial scores
RegCreate(t) ==
    /\ tasks[t].pc = "reg_create"
    /\ LET agent_id == CHOOSE a \in AgentIds \ DOMAIN agents :
                          \A b \in AgentIds \ DOMAIN agents : a <= b
           agent_data == NewAgentRow(tasks[t].req)
           identity_score == calculate_identity_score(agent_data)
           config_score == calculate_config_score(agent_data)
           behavior_score == 0
           composite == ApplyFloor(calculate_composite_score(identity_score, config_score,
                                                             behavior_score))
       IN  /\ agents' = agents @@ (agent_id :> agent_data)
           /\ Step(t, "reg_get_tiers",
                   [agent_id |-> agent_id, identity_score |-> identity_score,
                    config_score |-> config_score, behavior_score |-> behavior_score,
                    composite |-> composite])
    /\ UNCHANGED <<receipts, history, tiers, clock, next_receipt, tier_updates,
                   ops, slots, overlapped, call>>

\* db.get_tiers, then determine_tier
RegGetTiers(t) ==
    /\ tasks[t].pc = "reg_get_tiers"
    /\ LET loc == tasks[t].loc
       IN  Step(t, "reg_update",
                [agent_id |-> loc.agent_id, identity_score |-> loc.identity_score,
                 config_score |-> loc.config_score, behavior_score |-> loc.behavior_score,
                 composite |-> loc.composite,
                 tier |-> determine_tier(loc.composite, get_tiers)])
    /\ UNCHANGED <<agents, receipts, history, tiers, clock, next_receipt, tier_updates,
                   ops, slots, overlapped, call>>

\* db.update_agent_scores
update_agent_scores(agent_id, identity, config, behavior, composite, tier) ==
    IF agent_id \in DOMAIN agents
    THEN /\ agents' = [agents EXCEPT ![agent_id] =
                          ScoredRow(@, identity, config, behavior, composite, tier)]
         /\ history' = Append(history, HistoryPoint(agent_id, composite, tier))
    ELSE UNCHANGED <<agents, history>>

RegUpdate(t) ==
    /\ tasks[t].pc = "reg_update"
    /\ LET loc == tasks[t].loc
       IN  update_agent_scores(loc.agent_id, loc.identity_score, loc.config_score,
                               loc.behavior_score, loc.composite, loc.tier)
    /\ Step(t, "reg_broadcast", tasks[t].loc)
    /\ UNCHANGED <<receipts, tiers, clock, next_receipt, tier_updates, ops, slots,
                   overlapped, call>>

\* broadcast_websocket, db.get_agent, and the response.  A send that raises is
\* logged and skipped: delivered tells whether every send went through.
RegBroadcast(t) ==
    /\ tasks[t].pc = "reg_broadcast"
    /\ LET loc == tasks[t].loc
       IN  \E delivered \in BOOLEAN :
              Return(t, [status |-> "200", op |-> "register",
                         sent |-> <<[type |-> "agent_registered", new_score |-> loc.composite,
                                     new_tier |-> loc.tier]>>,
                         delivered |-> delivered])
    /\ UNCHANGED <<agents, receipts, history, tiers, clock, next_receipt, tier_updates,
                   ops, slots, overlapped, call>>

(* POST /actions/record *)

\* validate_result letting every result through
validate_result_Any(v) == v = v

\* ActionRecord.validate_result
validate_result(v) == v \in {"success", "failure", "violation"}

RecordStart(t) ==
    /\ FreeSlot(t)
    /\ ops < OpsBudget
    /\ next_receipt + Cardinality({u \in Tasks : tasks[u].pc = "ra_get_agent"}) < MaxReceipts
    /\ \E agent_id \in KnownAgents \cup {UnknownAgent}, action \in RecordedActions,
          result \in RequestResults, timestamp \in {None} \cup {Some(x) : x \in SuppliedTimes} :
          IF validate_result(result)
          THEN /\ Begin(t, "ra_get_agent",
                          [agent_id |-> agent_id, action |-> action,
                           result |-> result, timestamp |-> timestamp])
               /\ ops' = ops + 1
               /\ overlapped' =
                     IF \E u \in Tasks \ {t} : /\ tasks[u].pc \in RecordPcs
                                               /\ tasks[u].req.agent_id = agent_id
                     THEN overlapped \cup {agent_id}
                     ELSE overlapped
          ELSE /\ Return(t, [status |-> "422", op |-> "record_action"])
               /\ UNCHANGED <<ops, overlapped>>
    /\ UNCHANGED <<agents, receipts, history, tiers, clock, next_receipt, tier_updates,
                   slots, call>>

\* db.get_agent; then timestamp = record.timestamp or datetime.utcnow(), and uuid4()
RaGetAgent(t) ==
    /\ tasks[t].pc = "ra_get_agent"
    /\ LET req == tasks[t].req
       IN  IF req.agent_id \in DOMAIN agents
           THEN /\ Step(t, "ra_get_last",
                        [agent |-> agents[req.agent_id],
                         timestamp |-> IF req.timestamp.some THEN req.timestamp.val
                                       ELSE clock + 1,
                         receipt_id |-> next_receipt + 1])
                /\ clock' = IF req.timestamp.some THEN clock ELSE clock + 1
                /\ next_receipt' = next_receipt + 1
           ELSE /\ Return(t, [status |-> "404", op |-> "record_action"])
                /\ UNCHANGED <<clock, next_receipt>>
    /\ UNCHANGED <<agents, receipts, history, tiers, tier_updates, ops, slots,
                   overlapped, call>>

\* db.get_last_receipt; then sign_receipt and hash_receipt
RaGetLast(t) ==
    /\ tasks[t].pc = "ra_get_last"
    /\ LET req == tasks[t].req
           loc == tasks[t].loc
       IN  \E last_receipt \in get_last_receipt(req.agent_id) :
              LET previous_hash == IF last_receipt.some
                                   THEN Some(last_receipt.val.receipt_hash)
                                   ELSE None
                  signature == sign_receipt(AgentUuid(req.agent_id), req.action,
                                            <<req.result>>, IsoFormat(loc.timestamp),
                                            previous_hash)
                  receipt_hash == hash_receipt(ReceiptUuid(loc.receipt_id), signature)
              IN  Step(t, "ra_create",
                       [agent |-> loc.agent, timestamp |-> loc.timestamp,
                        receipt_id |-> loc.receipt_id, previous_hash |-> previous_hash,
                        signature |-> signature, receipt_hash |-> receipt_hash])
    /\ UNCHANGED <<agents, receipts, history, tiers, clock, next_receipt, tier_updates,
                   ops, slots, overlapped, call>>

\* An insert that is skipped when the agent already has a receipt with the same
\* action, result and timestamp
RaCreate_Idempotent(t) ==
    /\ tasks[t].pc = "ra_create"
    /\ LET req == tasks[t].req
           loc == tasks[t].loc
       IN  IF \E i \in DOMAIN receipts :
                 /\ receipts[i].agent_id = req.agent_id
                 /\ receipts[i].action = req.action
                 /\ receipts[i].result = req.result
                 /\ receipts[i].timestamp = loc.timestamp
           THEN UNCHANGED receipts
           ELSE receipts' = Append(receipts,
                                   [id |-> loc.receipt_id, agent_id |-> req.agent_id,
                                    action |-> req.action, result |-> req.result,
                                    timestamp |-> loc.timestamp, signature |-> loc.signature,
                                    previous_hash |-> loc.previous_hash,
                                    receipt_hash |-> loc.receipt_hash])
    /\ Step(t, "ra_get_receipts", tasks[t].loc)
    /\ UNCHANGED <<agents, history, tiers, clock, next_receipt, tier_updates, ops, slots,
                   overlapped, call>>

\* db.create_receipt
RaCreate(t) ==
    /\ tasks[t].pc = "ra_create"
    /\ LET req == tasks[t].req
           loc == tasks[t].loc
       IN  receipts' = Append(receipts,
                              [id |-> loc.receipt_id, agent_id |-> req.agent_id,
                               action |-> req.action, result |-> req.result,
                               timestamp |-> loc.timestamp, signature |-> loc.signature,
                               previous_hash |-> loc.previous_hash,
                               receipt_hash |-> loc.receipt_hash])
    /\ Step(t, "ra_get_receipts", tasks[t].loc)
    /\ UNCHANGED <<agents, history, tiers, clock, next_receipt, tier_updates, ops, slots,
                   overlapped, call>>

\* db.get_receipts; then the scores, the Sybil floor, old_tier = agent["tier"]
RaGetReceipts(t) ==
    /\ tasks[t].pc = "ra_get_receipts"
    /\ LET req == tasks[t].req
           loc == tasks[t].loc
       IN  \E listing \in get_receipts(req.agent_id) :
              LET identity_score == calculate_identity_score(loc.agent)
                  config_score == calculate_config_score(loc.agent)
                  behavior_score == calculate_behavior_score(Results(listing))
                  composite == ApplyFloor(calculate_composite_score(
                                              identity_score, config_score, behavior_score))
              IN  Step(t, "ra_get_tiers",
                       [receipt_id |-> loc.receipt_id, identity_score |-> identity_score,
                        config_score |-> config_score, behavior_score |-> behavior_score,
                        composite |-> composite, old_tier |-> loc.agent.tier])
    /\ UNCHANGED <<agents, receipts, history, tiers, clock, next_receipt, tier_updates,
                   ops, slots, overlapped, call>>

\* db.get_tiers; then determine_tier
RaGetTiers(t) ==
    /\ tasks[t].pc = "ra_get_tiers"
    /\ LET loc == tasks[t].loc
       IN  Step(t, "ra_update",
                [receipt_id |-> loc.receipt_id, identity_score |-> loc.identity_score,
                 config_score |-> loc.config_score, behavior_score |-> loc.behavior_score,
                 composite |-> loc.composite, old_tier |-> loc.old_tier,
                 tier |-> determine_tier(loc.composite, get_tiers)])
    /\ UNCHANGED <<agents, receipts, history, tiers, clock, next_receipt, tier_updates,
                   ops, slots, overlapped, call>>

\* db.update_agent_scores; stored_tier is the tier the row held just before the write
RaUpdate(t) ==
    /\ tasks[t].pc = "ra_update"
    /\ LET req == tasks[t].req
           loc == tasks[t].loc
       IN  /\ update_agent_scores(req.agent_id, loc.identity_score, loc.config_score,
                                  loc.behavior_score, loc.composite, loc.tier)
           /\ Step(t, "ra_notify",
                   [receipt_id |-> loc.receipt_id, composite |-> loc.composite,
                    old_tier |-> loc.old_tier, tier |-> loc.tier,
                    stored_tier |-> agents[req.agent_id].tier])
    /\ UNCHANGED <<receipts, tiers, clock, next_receipt, tier_updates, ops, slots,
                   overlapped, call>>

\* The messages record_action sends once the scores are written: the WebSocket
\* broadcast, then the tier_changed and authorization_denied webhooks.
RaEvents(t) ==
    LET req == tasks[t].req
        loc == tasks[t].loc
        recorded == <<[type |-> "receipt_recorded", new_score |-> loc.composite,
                       new_tier |-> loc.tier]>>
        changed == IF loc.old_tier # loc.tier
                   THEN <<[type |-> "tier_changed", old_tier |-> loc.old_tier,
                           new_tier |-> loc.tier]>>
                   ELSE <<>>
        denied == IF req.result = "violation"
                  THEN <<[type |-> "authorization_denied", reason |-> "violation"]>>
                  ELSE <<>>
    IN  recorded \o changed \o denied

\* A handler that answers 500 when a send raised
RaNotify_FailOnError(t) ==
    /\ tasks[t].pc = "ra_notify"
    /\ \E delivered \in BOOLEAN :
          Return(t, [status |-> IF delivered THEN "200" ELSE "500", op |-> "record_action",
                     sent |-> RaEvents(t), delivered |-> delivered])
    /\ UNCHANGED <<agents, receipts, history, tiers, clock, next_receipt, tier_updates,
                   ops, slots, overlapped, call>>

\* broadcast_websocket, trigger_webhooks, and the response.  A send or a
\* webhook post that raises is logged and skipped.
RaNotify(t) ==
    /\ tasks[t].pc = "ra_notify"
    /\ \E delivered \in BOOLEAN :
          Return(t, [status |-> "200", op |-> "record_action", sent |-> RaEvents(t),
                     delivered |-> delivered])
    /\ UNCHANGED <<agents, receipts, history, tiers, clock, next_receipt, tier_updates,
                   ops, slots, overlapped, call>>

(* PUT /tiers/{tier_num} *)

UpdateTierStart(t) ==
    /\ FreeSlot(t)
    /\ ops < OpsBudget
    /\ tier_updates < MaxTierUpdates
    /\ \E n \in TierNums, edit \in TierEdits :
          Begin(t, "ut_get", [tier_num |-> n, tier |-> edit])
    /\ tier_updates' = tier_updates + 1
    /\ ops' = ops + 1
    /\ UNCHANGED <<agents, receipts, history, tiers, clock, next_receipt, slots,
                   overlapped, call>>

\* db.get_tier: 404 when the tier does not exist
UtGet(t) ==
    /\ tasks[t].pc = "ut_get"
    /\ IF tasks[t].req.tier_num \in DOMAIN tiers
       THEN Step(t, "ut_update", <<>>)
       ELSE Return(t, [status |-> "404", op |-> "update_tier"])
    /\ UNCHANGED <<agents, receipts, history, tiers, clock, next_receipt, tier_updates,
                   ops, slots, overlapped, call>>

\* db.update_tier
UtUpdate(t) ==
    /\ tasks[t].pc = "ut_update"
    /\ LET req == tasks[t].req
       IN  tiers' = IF req.tier_num \in DOMAIN tiers
                    THEN [tiers EXCEPT ![req.tier_num] = req.tier]
                    ELSE tiers
    /\ Step(t, "ut_read", <<>>)
    /\ UNCHANGED <<agents, receipts, history, clock, next_receipt, tier_updates,
                   ops, slots, overlapped, call>>

\* db.get_tier, and the response
UtRead(t) ==
    /\ tasks[t].pc = "ut_read"
    /\ Return(t, [status |-> "200", op |-> "update_tier"])
    /\ UNCHANGED <<agents, receipts, history, tiers, clock, next_receipt, tier_updates,
                   ops, slots, overlapped, call>>

-----------------------------------------------------------------------------
(* The gateway *)

NoCall == [fn |-> "none"]

\* The state after startup: an empty database holding the default tiers
Startup ==
    /\ agents = <<>>
    /\ receipts = <<>>
    /\ history = <<>>
    /\ tiers = DefaultTiers
    /\ clock = 0
    /\ next_receipt = 0
    /\ tier_updates = 0
    /\ ops = 0
    /\ tasks = [t \in Tasks |-> Idle]
    /\ response = NoResp
    /\ overlapped = {}

Init ==
    /\ Startup
    /\ slots \in {1, NumTasks}
    /\ call = NoCall

Next ==
    \E t \in Tasks :
        \/ RegisterStart(t)
        \/ RegCreate(t)
        \/ RegGetTiers(t)
        \/ RegUpdate(t)
        \/ RegBroadcast(t)
        \/ RecordStart(t)
        \/ RaGetAgent(t)
        \/ RaGetLast(t)
        \/ RaCreate(t)
        \/ RaGetReceipts(t)
        \/ RaGetTiers(t)
        \/ RaUpdate(t)
        \/ RaNotify(t)
        \/ UpdateTierStart(t)
        \/ UtGet(t)
        \/ UtUpdate(t)
        \/ UtRead(t)

Spec == Init /\ [][Next]_vars

-----------------------------------------------------------------------------
(* Direct calls of the engine's pure functions: the arguments are drawn at the *)
(* start, each action applies one function and records what it returned.       *)

gateway == <<agents, receipts, history, tiers, clock, next_receipt, tier_updates,
             ops, slots, tasks, response, overlapped>>

Pending(fn, args) == [fn |-> fn, args |-> args, done |-> FALSE, ret |-> <<>>]

EngineInit(calls) ==
    /\ Startup
    /\ slots = 1
    /\ call \in calls

\* Scores at and around the thresholds of the default tiers and policies
ScoreStep == 500
ThresholdScores ==
    {k * ScoreStep : k \in 0..(Scale \div ScoreStep)}
    \cup {(2 * Scale) \div 10 - 1, (5 * Scale) \div 10 - 1, (8 * Scale) \div 10 - 1, Scale - 1}

(* check_authorization *)

RequiredScores == {0, (2 * Scale) \div 10, (3 * Scale) \div 10, (5 * Scale) \div 10,
                   (8 * Scale) \div 10}

AuthorizationCalls ==
    {Pending("check_authorization",
             [agent_tier |-> at, required_tier |-> rt, agent_score |-> as,
              required_score |-> rs]) :
        at \in DOMAIN DefaultTiers, rt \in DOMAIN DefaultTiers,
        as \in ThresholdScores, rs \in RequiredScores}

InitAuthorization == EngineInit(AuthorizationCalls)

CallCheckAuthorization ==
    /\ call.fn = "check_authorization"
    /\ ~call.done
    /\ call' = [call EXCEPT !.done = TRUE,
                            !.ret = check_authorization(call.args.agent_tier,
                                                        call.args.required_tier,
                                                        call.args.agent_score,
                                                        call.args.required_score)]
    /\ UNCHANGED gateway

NextAuthorization == CallCheckAuthorization

SpecAuthorization == InitAuthorization /\ [][NextAuthorization]_vars

(* determine_tier *)

Reverse(seq) == [i \in 1..Len(seq) |-> seq[Len(seq) + 1 - i]]

\* The tier table as the database lists it, by default and after one PUT
\* /tiers/{n}, and the default table listed backwards.
TierTables ==
    {TierList(DefaultTiers), Reverse(TierList(DefaultTiers))}
    \cup {TierList([DefaultTiers EXCEPT ![n] = e]) : n \in DOMAIN DefaultTiers, e \in TierEdits}

TierCalls ==
    {Pending("determine_tier", [score |-> sc, tiers |-> tl]) :
        sc \in ThresholdScores, tl \in TierTables}

InitTier == EngineInit(TierCalls)

CallDetermineTier ==
    /\ call.fn = "determine_tier"
    /\ ~call.done
    /\ call' = [call EXCEPT !.done = TRUE,
                            !.ret = determine_tier(call.args.score, call.args.tiers)]
    /\ UNCHANGED gateway

NextTier == CallDetermineTier

SpecTier == InitTier /\ [][NextTier]_vars

(* sign_receipt and verify_receipt *)

MaxFieldLen == 1

Alphabet == {"a", "b", "|"}

RECURSIVE Texts(_)
Texts(n) ==
    IF n = 0 THEN {<<>>}
    ELSE LET shorter == Texts(n - 1)
         IN  shorter \cup {Append(s, c) : s \in shorter, c \in Alphabet}

Text == Texts(MaxFieldLen)

\* The strings that differ from s in exactly one character
Mutations(s) == {[s EXCEPT ![i] = c] : i \in DOMAIN s, c \in Alphabet} \ {s}

ReceiptFields ==
    [agent_id : Text, action : Text, result : {<<"a">>, <<"|", "b">>},
     timestamp : {<<"a">>, <<"b", "|">>},
     previous_hash : {None} \cup {Some(h) : h \in Text}]

SignCalls == {Pending("sign_receipt", f) : f \in ReceiptFields}

InitReceipt == EngineInit(SignCalls)

CallSignReceipt ==
    /\ call.fn = "sign_receipt"
    /\ ~call.done
    /\ call' = [call EXCEPT !.done = TRUE,
                            !.ret = sign_receipt(call.args.agent_id, call.args.action,
                                                 call.args.result, call.args.timestamp,
                                                 call.args.previous_hash)]
    /\ UNCHANGED gateway

\* The receipts presented for verification after signing f: f itself, f with
\* one character of one field changed, and f under a signature that was not
\* made from it.
Tampered(f) ==
    {[f EXCEPT !.agent_id = m] : m \in Mutations(f.agent_id)}
    \cup {[f EXCEPT !.action = m] : m \in Mutations(f.action)}
    \cup {[f EXCEPT !.result = m] : m \in Mutations(f.result)}
    \cup {[f EXCEPT !.timestamp = m] : m \in Mutations(f.timestamp)}
    \cup {[f EXCEPT !.previous_hash = Some(m)] : m \in Mutations(f.previous_hash.val)}

ForgedSignatures(f) ==
    {<<"invalid-signature">>,
     HmacSha256(<<"other-key">>,
                ReceiptMessage(f.agent_id, f.action, f.result, f.timestamp,
                               f.previous_hash))}

\* Other field tuples built from the same characters as f: a delimiter that
\* leads the action moved to the end of the agent id, and an absent
\* previous_hash exchanged with the empty string.
Regrouped(f) ==
    (IF Len(f.action) > 0 /\ Head(f.action) = Delim[1]
     THEN {[f EXCEPT !.agent_id = f.agent_id \o Delim, !.action = Tail(f.action)]}
     ELSE {})
    \cup (IF ~f.previous_hash.some THEN {[f EXCEPT !.previous_hash = Some(<<>>)]} ELSE {})
    \cup (IF f.previous_hash = Some(<<>>) THEN {[f EXCEPT !.previous_hash = None]} ELSE {})

CallVerifyReceipt ==
    /\ call.fn = "sign_receipt"
    /\ call.done
    /\ \E kind \in {"same", "tampered", "forged", "regrouped"} :
       \E g \in (IF kind = "tampered" THEN Tampered(call.args)
                 ELSE IF kind = "regrouped" THEN Regrouped(call.args)
                 ELSE {call.args}) :
       \E sig \in (IF kind = "forged" THEN ForgedSignatures(call.args) ELSE {call.ret}) :
          call' = [fn |-> "verify_receipt", args |-> g, done |-> TRUE,
                   ret |-> verify_receipt(g.agent_id, g.action, g.result, g.timestamp,
                                          sig, g.previous_hash),
                   signature |-> sig, signed |-> call.args, kind |-> kind]
    /\ UNCHANGED gateway

NextReceipt == CallSignReceipt \/ CallVerifyReceipt

SpecReceipt == InitReceipt /\ [][NextReceipt]_vars

(* issue_jwt_token and verify_jwt_token *)

MaxExpiresIn == 2
MaxElapsed == 5

TokenScores == {SybilFloor, 3833, 3835, 3845, Scale \div 2, 8826, Scale}

TokenCalls ==
    {Pending("issue_jwt_token",
             [agent_id |-> AgentUuid(1), agent_name |-> nm, tier |-> tr,
              composite_score |-> sc, permitted_actions |-> pa, expires_in |-> ex,
              now |-> nw]) :
        nm \in {<<"n">>, <<"m">>}, tr \in DOMAIN DefaultTiers, sc \in TokenScores,
        pa \in {AllPermissions, Tier0Permissions, <<>>},
        ex \in (-1)..MaxExpiresIn, nw \in 0..(TicksPerSecond - 1)}

InitJwt == EngineInit(TokenCalls)

CallIssueJwtToken ==
    /\ call.fn = "issue_jwt_token"
    /\ ~call.done
    /\ call' = [call EXCEPT !.done = TRUE,
                            !.ret = issue_jwt_token(call.args.agent_id, call.args.agent_name,
                                                    call.args.tier, call.args.composite_score,
                                                    call.args.permitted_actions,
                                                    call.args.expires_in, call.args.now)]
    /\ UNCHANGED gateway

\* The tokens presented for verification after issuing tok: tok itself, tok
\* with its claims altered, the same claims signed with another secret, and
\* strings that are no token (an undecodable header, a garbage signature).
PresentedTokens(tok, kind) ==
    CASE kind = "issued" -> {tok}
      [] kind = "altered" ->
            {[tok EXCEPT !.payload.tier = (tok.payload.tier + 1) % 4],
             [tok EXCEPT !.payload.exp = tok.payload.exp + MaxElapsed],
             [tok EXCEPT !.payload.permitted_actions = AllPermissions \o @]}
      [] kind = "foreign" -> {JwtEncode(tok.payload, <<"other-secret">>)}
      [] kind = "malformed" ->
            {[tok EXCEPT !.header = [alg |-> "invalid", typ |-> "token"]],
             [tok EXCEPT !.signature = <<"here">>]}

CallVerifyJwtToken ==
    /\ call.fn = "issue_jwt_token"
    /\ call.done
    /\ \E elapsed \in 0..MaxElapsed, kind \in {"issued", "altered", "foreign", "malformed"} :
       \E presented \in PresentedTokens(call.ret, kind) :
          call' = [fn |-> "verify_jwt_token", args |-> call.args, done |-> TRUE,
                   ret |-> verify_jwt_token(presented, call.args.now + elapsed),
                   token |-> presented, now |-> call.args.now + elapsed, kind |-> kind]
    /\ UNCHANGED gateway

NextJwt == CallIssueJwtToken \/ CallVerifyJwtToken

SpecJwt == InitJwt /\ [][NextJwt]_vars

(* The scoring functions: calculate_behavior_score, calculate_identity_score *)

MaxHistory == 4

\* The result lists of the histories of exactly n receipts, newest first
RECURSIVE Histories(_)
Histories(n) ==
    IF n = 0 THEN {<<>>}
    ELSE {<<r>> \o h : r \in ValidResults, h \in Histories(n - 1)}

BehaviorCalls ==
    {Pending("calculate_behavior_score", [results |-> h]) :
        h \in UNION {Histories(n) : n \in 0..MaxHistory}}

CallCalculateBehaviorScore ==
    /\ call.fn = "calculate_behavior_score"
    /\ ~call.done
    /\ call' = [call EXCEPT !.done = TRUE,
                            !.ret = [score |-> calculate_behavior_score(call.args.results),
                                     total_actions |->
                                         behavior_total_actions(call.args.results)]]
    /\ UNCHANGED gateway

\* Capability list lengths: none, below, at and above the ten that count in full
CapabilityCounts == {0, 1, 5, 10, 12}

\* Agent rows with every combination of present and missing identity facts
IdentityCalls ==
    {Pending("calculate_identity_score",
             [agent |-> [name |-> n, provider |-> p, config_hash |-> h, capabilities |-> c,
                         spiffe_id |-> s, attestation |-> a, config_changes |-> 0]]) :
        n \in {<<>>, <<"n">>}, p \in {<<>>, <<"p">>}, h \in {<<>>, <<"h">>},
        c \in CapabilityCounts, s \in {None, Some(<<"spiffe://d/a">>)},
        a \in {None} \cup {Some(ty) : ty \in AttestationTypes}}

CallCalculateIdentityScore ==
    /\ call.fn = "calculate_identity_score"
    /\ ~call.done
    /\ call' = [call EXCEPT !.done = TRUE,
                            !.ret = [score |-> calculate_identity_score(call.args.agent),
                                     factors |-> identity_factors(call.args.agent)]]
    /\ UNCHANGED gateway

\* record_action's recomputation for an agent row and the result fields of its
\* receipts, newest first: the three scores, the composite and the floor
Rescore(agent, results) ==
    LET identity_score == calculate_identity_score(agent)
        config_score == calculate_config_score(agent)
        behavior_score == calculate_behavior_score(results)
        composite == ApplyFloor(calculate_composite_score(identity_score, config_score,
                                                          behavior_score))
    IN  [behavior_score |-> behavior_score, composite_score |-> composite]

\* An agent row before and after one more receipt became its newest
RescoreCalls ==
    {Pending("rescore", [agent |-> NewAgentRow(reg), results |-> h, result |-> r]) :
        reg \in {g \in Registrations : validate_capabilities(g.capabilities)},
        h \in UNION {Histories(n) : n \in 0..(MaxHistory - 1)},
        r \in ValidResults}

CallRescore ==
    /\ call.fn = "rescore"
    /\ ~call.done
    /\ call' = [call EXCEPT !.done = TRUE,
                            !.ret = [before |-> Rescore(call.args.agent, call.args.results),
                                     after |-> Rescore(call.args.agent,
                                                       <<call.args.result>>
                                                           \o call.args.results)]]
    /\ UNCHANGED gateway

InitScoring == EngineInit(BehaviorCalls \cup IdentityCalls \cup RescoreCalls)

NextScoring == CallCalculateBehaviorScore \/ CallCalculateIdentityScore \/ CallRescore

SpecScoring == InitScoring /\ [][NextScoring]_vars

(* calculate_composite_score, beside the handlers that call it *)

\* Component scores: none, the floor's value, and full
ComponentScores == {0, Scale \div 10, Scale}

CompositeCalls ==
    {Pending("calculate_composite_score", [identity |-> i, config |-> c, behavior |-> b]) :
        i \in ComponentScores, c \in ComponentScores, b \in ComponentScores}

CallCalculateCompositeScore ==
    /\ call.fn = "calculate_composite_score"
    /\ ~call.done
    /\ call' = [call EXCEPT !.done = TRUE,
                            !.ret = calculate_composite_score(call.args.identity,
                                                              call.args.config,
                                                              call.args.behavior)]
    /\ UNCHANGED gateway

InitComposite == EngineInit(CompositeCalls)

NextComposite == Next \/ CallCalculateCompositeScore

SpecComposite == InitComposite /\ [][NextComposite]_vars

(* get_permitted_actions_for_tier *)

\* The table without its i-th row
WithoutRow(tl, i) == [k \in 1..(Len(tl) - 1) |-> IF k < i THEN tl[k] ELSE tl[k + 1]]

\* Tier tables: those determine_tier is given, the default table with the
\* wildcard among the other permissions of one row, the default table short of
\* one row, and the empty table.
PermissionTables ==
    TierTables
    \cup {TierList([DefaultTiers EXCEPT ![n].permissions =
                        <<"read_config", "*", "send_email">>]) : n \in DOMAIN DefaultTiers}
    \cup {WithoutRow(TierList(DefaultTiers), i) : i \in 1..Len(TierList(DefaultTiers))}
    \cup {<<>>}

PermissionCalls ==
    {Pending("get_permitted_actions_for_tier", [tier |-> n, tiers |-> tl]) :
        n \in TierNums, tl \in PermissionTables}

CallGetPermittedActionsForTier ==
    /\ call.fn = "get_permitted_actions_for_tier"
    /\ ~call.done
    /\ call' = [call EXCEPT !.done = TRUE,
                            !.ret = get_permitted_actions_for_tier(call.args.tier,
                                                                   call.args.tiers)]
    /\ UNCHANGED gateway

InitPermissions == EngineInit(PermissionCalls)

NextPermissions == CallGetPermittedActionsForTier

SpecPermissions == InitPermissions /\ [][NextPermissions]_vars

-----------------------------------------------------------------------------
(* The read side of the gateway: authorize, authorize_batch, the trust        *)
(* breakdown and issue_token, and a client that holds the issued token.       *)

\* authorize_action: action_policies and the default for unknown actions
ActionPolicies ==
    [a \in {"read_config", "view_status", "send_notification", "read_data", "write_data",
            "call_api", "send_email", "delete_data", "delete_database", "admin_action"} |->
        CASE a \in {"read_config", "view_status"} -> [tier |-> 0, score |-> 0]
          [] a \in {"send_notification", "read_data"} ->
                [tier |-> 1, score |-> (2 * Scale) \div 10]
          [] a \in {"write_data", "call_api", "send_email"} ->
                [tier |-> 2, score |-> (5 * Scale) \div 10]
          [] a = "delete_data" -> [tier |-> 3, score |-> (8 * Scale) \div 10]
          [] a = "delete_database" -> [tier |-> 3, score |-> (9 * Scale) \div 10]
          [] a = "admin_action" -> [tier |-> 3, score |-> (85 * Scale) \div 100]]

DefaultPolicy == [tier |-> 1, score |-> (3 * Scale) \div 10]

\* A lookup that asks nothing of an action missing from the table
RequiredFor_Permissive(action) ==
    IF action \in DOMAIN ActionPolicies THEN ActionPolicies[action] ELSE [tier |-> 0, score |-> 0]

\* action_policies.get(request.action, (1, 0.3))
RequiredFor(action) ==
    IF action \in DOMAIN ActionPolicies THEN ActionPolicies[action] ELSE DefaultPolicy

\* authorize_action once the agent is read: the AuthorizationResponse
AuthorizationResponse(agent_id, agent, action) ==
    LET required == RequiredFor(action)
        decision == check_authorization(agent.tier, required.tier,
                                        agent.composite_score, required.score)
    IN  [allowed |-> decision.allowed, agent_id |-> agent_id, action |-> action,
         current_tier |-> agent.tier, required_tier |-> required.tier,
         current_score |-> agent.composite_score, required_score |-> required.score,
         reason |-> decision.reason]

\* Requested actions: three of the policy table and two that are not in it
RequestedActions == {"read_config", "send_email", "delete_database", "deploy", "reboot"}

BatchLists ==
    {<<>>, <<"read_config">>, <<"deploy", "send_email">>, <<"send_email", "send_email">>,
     <<"delete_database", "reboot", "delete_database">>}

TokenLifetimes == {0, 1}

AuthorizePcs == {"az_get_agent", "az_notify"}
BatchPcs == {"ab_get_agent", "ab_notify"}
BreakdownPcs == {"tb_get_agent", "tb_get_receipts", "tb_get_tier"}
IssueTokenPcs == {"it_get_agent", "it_get_tiers"}

(* POST /authorize *)

AuthorizeStart(t) ==
    /\ ClientRun
    /\ FreeSlot(t)
    /\ \E agent_id \in KnownAgents \cup {UnknownAgent}, action \in RequestedActions :
          Begin(t, "az_get_agent", [agent_id |-> agent_id, action |-> action])
    /\ UNCHANGED <<agents, receipts, history, tiers, clock, next_receipt, tier_updates,
                   ops, slots, overlapped, call>>

\* db.get_agent, the policy lookup and check_authorization
AzGetAgent(t) ==
    /\ tasks[t].pc = "az_get_agent"
    /\ LET req == tasks[t].req
       IN  IF req.agent_id \notin DOMAIN agents
           THEN Return(t, [status |-> "404", op |-> "authorize"])
           ELSE LET resp == AuthorizationResponse(req.agent_id, agents[req.agent_id],
                                                  req.action)
                IN  IF resp.allowed
                    THEN Return(t, [status |-> "200", op |-> "authorize", body |-> resp])
                    ELSE Step(t, "az_notify", resp)
    /\ UNCHANGED <<agents, receipts, history, tiers, clock, next_receipt, tier_updates,
                   ops, slots, overlapped, call>>

\* a denial: broadcast_websocket, trigger_webhooks, and the response
AzNotify(t) ==
    /\ tasks[t].pc = "az_notify"
    /\ Return(t, [status |-> "200", op |-> "authorize", body |-> tasks[t].loc])
    /\ UNCHANGED <<agents, receipts, history, tiers, clock, next_receipt, tier_updates,
                   ops, slots, overlapped, call>>

(* POST /authorize/batch *)

NoResults == [a \in {} |-> 0]

\* A map whose every entry is overwritten by the latest decision
WithResult_Clobber(results, action, resp) ==
    [a \in DOMAIN results \cup {action} |-> resp]

\* results[action] = auth_response
WithResult(results, action, resp) ==
    [a \in DOMAIN results \cup {action} |-> IF a = action THEN resp ELSE results[a]]

BatchResponse(agent_id, results) ==
    [status |-> "200", op |-> "authorize_batch",
     body |-> [agent_id |-> agent_id, results |-> results]]

\* The loop after authorize_action returned for the i-th action
BatchAdvance(t, i, results) ==
    IF i = Len(tasks[t].req.actions)
    THEN Return(t, BatchResponse(tasks[t].req.agent_id, results))
    ELSE Step(t, "ab_get_agent", [i |-> i + 1, results |-> results])

\* An empty action list returns before any await
BatchStart(t) ==
    /\ ClientRun
    /\ FreeSlot(t)
    /\ \E agent_id \in KnownAgents \cup {UnknownAgent}, actions \in BatchLists :
          IF Len(actions) = 0
          THEN Return(t, BatchResponse(agent_id, NoResults))
          ELSE /\ tasks' = [tasks EXCEPT ![t] =
                               [pc |-> "ab_get_agent",
                                req |-> [agent_id |-> agent_id, actions |-> actions],
                                loc |-> [i |-> 1, results |-> NoResults]]]
               /\ UNCHANGED response
    /\ UNCHANGED <<agents, receipts, history, tiers, clock, next_receipt, tier_updates,
                   ops, slots, overlapped, call>>

\* authorize_action for the i-th action: db.get_agent and the decision
AbGetAgent(t) ==
    /\ tasks[t].pc = "ab_get_agent"
    /\ LET req == tasks[t].req
           loc == tasks[t].loc
       IN  IF req.agent_id \notin DOMAIN agents
           THEN Return(t, [status |-> "404", op |-> "authorize_batch"])
           ELSE LET resp == AuthorizationResponse(req.agent_id, agents[req.agent_id],
                                                  req.actions[loc.i])
                IN  IF resp.allowed
                    THEN BatchAdvance(t, loc.i, WithResult(loc.results, resp.action, resp))
                    ELSE Step(t, "ab_notify",
                              [i |-> loc.i, results |-> loc.results, denied |-> resp])
    /\ UNCHANGED <<agents, receipts, history, tiers, clock, next_receipt, tier_updates,
                   ops, slots, overlapped, call>>

\* the denial's notifications, then the loop goes on
AbNotify(t) ==
    /\ tasks[t].pc = "ab_notify"
    /\ LET loc == tasks[t].loc
       IN  BatchAdvance(t, loc.i, WithResult(loc.results, loc.denied.action, loc.denied))
    /\ UNCHANGED <<agents, receipts, history, tiers, clock, next_receipt, tier_updates,
                   ops, slots, overlapped, call>>

(* GET /agents/{agent_id}/trust *)

BreakdownStart(t) ==
    /\ ClientRun
    /\ FreeSlot(t)
    /\ \E agent_id \in KnownAgents \cup {UnknownAgent} :
          Begin(t, "tb_get_agent", [agent_id |-> agent_id])
    /\ UNCHANGED <<agents, receipts, history, tiers, clock, next_receipt, tier_updates,
                   ops, slots, overlapped, call>>

TbGetAgent(t) ==
    /\ tasks[t].pc = "tb_get_agent"
    /\ LET req == tasks[t].req
       IN  IF req.agent_id \notin DOMAIN agents
           THEN Return(t, [status |-> "404", op |-> "trust_breakdown"])
           ELSE Step(t, "tb_get_receipts", [agent |-> agents[req.agent_id]])
    /\ UNCHANGED <<agents, receipts, history, tiers, clock, next_receipt, tier_updates,
                   ops, slots, overlapped, call>>

\* db.get_receipts, then the three sub-scores recomputed
TbGetReceipts(t) ==
    /\ tasks[t].pc = "tb_get_receipts"
    /\ LET agent == tasks[t].loc.agent
       IN  \E listing \in get_receipts(tasks[t].req.agent_id) :
              Step(t, "tb_get_tier",
                   [agent_id |-> tasks[t].req.agent_id,
                    identity_score |-> calculate_identity_score(agent),
                    config_score |-> calculate_config_score(agent),
                    behavior_score |-> calculate_behavior_score(Results(listing)),
                    total_actions |-> behavior_total_actions(Results(listing)),
                    composite_score |-> agent.composite_score,
                    tier |-> agent.tier])
    /\ UNCHANGED <<agents, receipts, history, tiers, clock, next_receipt, tier_updates,
                   ops, slots, overlapped, call>>

\* db.get_tier (the tier's name), and the response
TbGetTier(t) ==
    /\ tasks[t].pc = "tb_get_tier"
    /\ Return(t, [status |-> "200", op |-> "trust_breakdown", body |-> tasks[t].loc])
    /\ UNCHANGED <<agents, receipts, history, tiers, clock, next_receipt, tier_updates,
                   ops, slots, overlapped, call>>

(* POST /agents/{agent_id}/token *)

\* The client before it holds a token
NoToken == [fn |-> "client", held |-> FALSE, token |-> <<>>, issue |-> <<>>,
            checked |-> FALSE, ret |-> <<>>, now |-> 0]

IssueTokenStart(t) ==
    /\ ClientRun
    /\ ~call.held
    /\ FreeSlot(t)
    /\ \A u \in Tasks : tasks[u].pc \notin IssueTokenPcs
    /\ \E agent_id \in KnownAgents \cup {UnknownAgent}, expires_in \in TokenLifetimes :
          Begin(t, "it_get_agent", [agent_id |-> agent_id, expires_in |-> expires_in])
    /\ UNCHANGED <<agents, receipts, history, tiers, clock, next_receipt, tier_updates,
                   ops, slots, overlapped, call>>

ItGetAgent(t) ==
    /\ tasks[t].pc = "it_get_agent"
    /\ LET req == tasks[t].req
       IN  IF req.agent_id \notin DOMAIN agents
           THEN Return(t, [status |-> "404", op |-> "issue_token"])
           ELSE Step(t, "it_get_tiers", [agent |-> agents[req.agent_id]])
    /\ UNCHANGED <<agents, receipts, history, tiers, clock, next_receipt, tier_updates,
                   ops, slots, overlapped, call>>

\* db.get_tiers, the tier's permitted actions, issue_jwt_token; the client keeps
\* the token with what the response says about it
ItGetTiers(t) ==
    /\ tasks[t].pc = "it_get_tiers"
    /\ LET req == tasks[t].req
           agent == tasks[t].loc.agent
           permitted_actions == get_permitted_actions_for_tier(agent.tier, get_tiers)
           token == issue_jwt_token(AgentUuid(req.agent_id), agent.name, agent.tier,
                                    agent.composite_score, permitted_actions,
                                    req.expires_in, clock)
       IN  /\ Return(t, [status |-> "200", op |-> "issue_token",
                         body |-> [token |-> token, expires_in |-> req.expires_in,
                                   tier |-> agent.tier,
                                   permitted_actions |-> permitted_actions]])
           /\ call' = [call EXCEPT !.held = TRUE, !.token = token,
                                   !.issue = [agent_id |-> req.agent_id,
                                              tier |-> agent.tier,
                                              composite_score |-> agent.composite_score,
                                              permitted_actions |-> permitted_actions,
                                              expires_in |-> req.expires_in,
                                              now |-> clock]]
    /\ UNCHANGED <<agents, receipts, history, tiers, clock, next_receipt, tier_updates,
                   ops, slots, overlapped>>

\* A service holding the token verifies it
VerifyToken ==
    /\ ClientRun
    /\ call.held
    /\ call' = [call EXCEPT !.checked = TRUE, !.ret = verify_jwt_token(call.token, clock),
                            !.now = clock]
    /\ UNCHANGED gateway

\* Time passes
Tick ==
    /\ ClientRun
    /\ call.held
    /\ clock < MaxClock
    /\ clock' = clock + 1
    /\ UNCHANGED <<agents, receipts, history, tiers, next_receipt, tier_updates,
                   ops, slots, tasks, response, overlapped, call>>

InitAccess ==
    /\ Startup
    /\ slots = 1
    /\ call = NoToken

NextAccess ==
    \/ Next
    \/ \E t \in Tasks :
          \/ AuthorizeStart(t)
          \/ AzGetAgent(t)
          \/ AzNotify(t)
          \/ BatchStart(t)
          \/ AbGetAgent(t)
          \/ AbNotify(t)
          \/ BreakdownStart(t)
          \/ TbGetAgent(t)
          \/ TbGetReceipts(t)
          \/ TbGetTier(t)

SpecAccess == InitAccess /\ [][NextAccess]_vars

NextToken ==
    \/ Next
    \/ \E t \in Tasks :
          \/ IssueTokenStart(t)
          \/ ItGetAgent(t)
          \/ ItGetTiers(t)
    \/ VerifyToken
    \/ Tick

SpecToken == InitAccess /\ [][NextToken]_vars

-----------------------------------------------------------------------------
(* The token's grant beside the gate, for an agent state on the default tables: *)
(* issue_token's permitted-action list and authorize's decisions.               *)

\* Composite scores in steps of a hundredth
GrantScores == {k * (Scale \div 100) : k \in 0..100}

GrantCalls == {Pending("grant", [composite_score |-> sc]) : sc \in GrantScores}

\* The agent state the score stands for, the list issue_token puts into the
\* token, and what authorize_action answers for each action of the policy table
CallGrant ==
    /\ call.fn = "grant"
    /\ ~call.done
    /\ LET agent == [tier |-> determine_tier(call.args.composite_score, get_tiers),
                     composite_score |-> call.args.composite_score]
       IN  call' = [call EXCEPT
                       !.done = TRUE,
                       !.ret = [tier |-> agent.tier,
                                permitted_actions |->
                                    get_permitted_actions_for_tier(agent.tier, get_tiers),
                                allowed |-> [a \in DOMAIN ActionPolicies |->
                                                AuthorizationResponse(1, agent, a).allowed]]]
    /\ UNCHANGED gateway

InitGrant == EngineInit(GrantCalls)

NextGrant == CallGrant

SpecGrant == InitGrant /\ [][NextGrant]_vars

-----------------------------------------------------------------------------
(* Properties of the gateway *)

Quiescent == \A t \in Tasks : tasks[t].pc = "idle"

\* C1: every stored agent's composite_score lies in [0.1, 1.0], in every state,
\* whatever register, record_action and update_tier calls ran and however they
\* interleaved.
C1_CompositeInRange ==
    \A a \in DOMAIN agents :
        /\ agents[a].composite_score >= SybilFloor
        /\ agents[a].composite_score <= Scale

\* A violation was recorded for an agent, its scores were rewritten, and a tier
\* was reconfigured.
C1_Witness ==
    /\ Quiescent
    /\ tier_updates > 0
    /\ tiers # DefaultTiers
    /\ \E a \in DOMAIN agents :
          /\ \E i \in DOMAIN receipts :
                receipts[i].agent_id = a /\ receipts[i].result = "violation"
          /\ agents[a].identity_score > 0

\* C2: when the record_action calls of an agent did not overlap, the k-th receipt
\* created for it (k > 1) carries previous_hash = receipt_hash of the (k-1)-th,
\* and only the first has no previous_hash.
C2_SequentialChain ==
    \A a \in DOMAIN agents \ overlapped :
        LET rows == AgentReceipts(receipts, a)
        IN  \A k \in DOMAIN rows :
               IF k = 1 THEN rows[k].previous_hash = None
               ELSE rows[k].previous_hash = Some(rows[k - 1].receipt_hash)

\* C3: the receipt chain of an agent never forks: no two of its receipts carry
\* the same previous_hash, and at most one of them has none.
C3_NoFork ==
    \A a \in DOMAIN agents :
        LET rows == AgentReceipts(receipts, a)
        IN  \A i, j \in DOMAIN rows :
               i # j => rows[i].previous_hash # rows[j].previous_hash

\* The scores register and record_action would store for an agent row, given a
\* listing of all its receipts and the tier table.
ScoresFrom(row, listing, table) ==
    LET behavior == calculate_behavior_score(Results(listing))
        composite == ApplyFloor(calculate_composite_score(
                         calculate_identity_score(row), calculate_config_score(row),
                         behavior))
    IN  [behavior_score |-> behavior, composite_score |-> composite,
         tier |-> determine_tier(composite, TierList(table))]

\* C4: once every call has completed (and no tier was reconfigured), each agent's
\* stored behavior_score, composite_score and tier are the ones computed from its
\* complete receipt history.
C4_NoLostUpdate ==
    (Quiescent /\ tier_updates = 0) =>
        \A a \in DOMAIN agents :
            \E listing \in get_receipts(a) :
                LET s == ScoresFrom(agents[a], listing, tiers)
                IN  /\ agents[a].behavior_score = s.behavior_score
                    /\ agents[a].composite_score = s.composite_score
                    /\ agents[a].tier = s.tier

\* The chain-integrity walk over receipts in creation order: the indexes of the
\* receipts whose previous_hash does not match the prior receipt_hash (absent for
\* the first) or whose signature fails verification.
BrokenLinks(rows) ==
    {k \in DOMAIN rows :
        \/ rows[k].previous_hash #
              (IF k = 1 THEN None ELSE Some(rows[k - 1].receipt_hash))
        \/ ~verify_receipt(AgentUuid(rows[k].agent_id), rows[k].action,
                           <<rows[k].result>>, IsoFormat(rows[k].timestamp),
                           rows[k].signature, rows[k].previous_hash)}

verify_chain(rows) ==
    LET broken == BrokenLinks(rows)
    IN  IF broken = {} THEN [valid |-> TRUE, index |-> 0]
        ELSE [valid |-> FALSE,
              index |-> CHOOSE k \in broken : \A m \in broken : k <= m]

\* C9: the chain-integrity check reports valid for the receipts record_action
\* produced in order (non-overlapping calls) for an agent.
C9_SequentialChainValid ==
    \A a \in DOMAIN agents \ overlapped :
        verify_chain(AgentReceipts(receipts, a)).valid

Returned(fn) == call.fn = fn /\ call.done

\* C5: check_authorization allows exactly when the agent's tier is at least the
\* required tier and its score is at least the required score.
C5_AllowedIff ==
    Returned("check_authorization") =>
        (call.ret.allowed <=>
            (/\ call.args.agent_tier >= call.args.required_tier
             /\ call.args.agent_score >= call.args.required_score))

\* Allowed and denied calls with the tier and the score exactly at the requirement
C5_Witness ==
    /\ Returned("check_authorization")
    /\ call.args.agent_tier = call.args.required_tier
    /\ call.args.agent_score = call.args.required_score
    /\ call.args.required_score > 0
    /\ call.ret.allowed

\* C6: a denial names the failed condition, the tier first: a tier below the
\* requirement gives the tier reason whatever the score; the score reason is
\* given only when the tier suffices and the score is below the requirement.
C6_DenialReason ==
    (Returned("check_authorization") /\ ~call.ret.allowed) =>
        IF call.args.agent_tier < call.args.required_tier
        THEN /\ call.ret.reason[1] = "Insufficient trust tier (need tier "
             /\ call.ret.reason[2] = ToString(call.args.required_tier)
             /\ call.ret.reason[4] = ToString(call.args.agent_tier)
        ELSE /\ call.ret.reason[1] = "Insufficient trust score (need "
             /\ call.args.agent_score < call.args.required_score

\* A denial where both the tier and the score fall short
C6_Witness ==
    /\ Returned("check_authorization")
    /\ ~call.ret.allowed
    /\ call.args.agent_tier < call.args.required_tier
    /\ call.args.agent_score < call.args.required_score
    /\ call.ret.reason[1] = "Insufficient trust tier (need tier "

IsDefaultTable(tl) == tl = TierList(DefaultTiers)

\* C7: determine_tier returns the highest-numbered tier whose min_score is at most
\* the score, and 0 when there is none; on the default table that is the one
\* tier whose range holds the score (0.1999 -> 0, 0.2 -> 1, 0.5 -> 2, 0.8 -> 3).
C7_HighestReachedTier ==
    Returned("determine_tier") =>
        LET tl == call.args.tiers
            score == call.args.score
            reached == {tl[i].tier : i \in {j \in DOMAIN tl : tl[j].min_score <= score}}
        IN  /\ IF reached = {} THEN call.ret = 0
               ELSE call.ret \in reached /\ \A n \in reached : n <= call.ret
            /\ IsDefaultTable(tl) =>
                  /\ \A i \in DOMAIN tl :
                        (tl[i].min_score <= score /\ score < tl[i].max_score)
                            => call.ret = tl[i].tier
                  /\ (score = 1999) => call.ret = 0
                  /\ (score = 2000) => call.ret = 1
                  /\ (score = 5000) => call.ret = 2
                  /\ (score = 8000) => call.ret = 3

\* The default table at the lower edge of tier 2
C7_Witness ==
    /\ Returned("determine_tier")
    /\ IsDefaultTable(call.args.tiers)
    /\ call.args.score = 5000
    /\ call.ret = 2

\* C8: a signature made by sign_receipt verifies with the inputs it was made
\* from; it does not verify once a single character of any one signed field is
\* changed, nor does a signature that was not made from those inputs.
C8_SignVerify ==
    Returned("verify_receipt") =>
        /\ (call.kind = "same") => call.ret
        /\ (call.kind = "tampered") => ~call.ret
        /\ (call.kind = "forged") => ~call.ret

\* A verification of a receipt whose result was changed in one character
C8_Witness ==
    /\ Returned("verify_receipt")
    /\ call.kind = "tampered"
    /\ call.args.result # call.signed.result
    /\ Len(call.args.result) = Len(call.signed.result)
    /\ ~call.ret

\* C10: a token verified before its expiry by the engine that issued it decodes
\* to the subject, name, tier, permitted actions it was issued with, the
\* composite score rounded to 3 decimals, and issuer 'trust-gateway'.
C10_JwtRoundTrip ==
    (/\ Returned("verify_jwt_token")
     /\ call.kind = "issued"
     /\ call.now < call.args.now + call.args.expires_in * TicksPerSecond) =>
        /\ ~call.ret.raised
        /\ call.ret.payload.sub = call.args.agent_id
        /\ call.ret.payload.name = call.args.agent_name
        /\ call.ret.payload.tier = call.args.tier
        /\ call.ret.payload.permitted_actions = call.args.permitted_actions
        /\ call.ret.payload.iss = <<"trust-gateway">>
        /\ call.ret.payload.trust_score % (Scale \div 1000) = 0
        /\ 2 * call.ret.payload.trust_score <= 2 * call.args.composite_score + (Scale \div 1000)
        /\ 2 * call.ret.payload.trust_score >= 2 * call.args.composite_score - (Scale \div 1000)

\* A token decoded a while after it was issued, its score rounded
C10_Witness ==
    /\ Returned("verify_jwt_token")
    /\ call.kind = "issued"
    /\ call.now > call.args.now
    /\ call.now < call.args.now + call.args.expires_in * TicksPerSecond
    /\ ~call.ret.raised
    /\ call.ret.payload.trust_score # call.args.composite_score

\* C11: verify_jwt_token raises for every token verified after its expiry
\* instant (issued-at + expires_in), for every token altered after issuance,
\* signed with another secret or malformed, and never accepts a token issued
\* with expires_in <= 0.
C11_RejectsInvalid ==
    Returned("verify_jwt_token") =>
        /\ (call.now > call.args.now + call.args.expires_in * TicksPerSecond)
              => call.ret.raised
        /\ (call.kind # "issued") => call.ret.raised
        /\ (call.args.expires_in <= 0) => call.ret.raised

TokenChecked == ClientRun /\ call.held /\ call.checked

\* C12: a token is a snapshot: whatever record_action and update_tier did to the
\* agent or the tier table after issue_token, verify_jwt_token returns the
\* tier, score and permitted actions of the time of issue, and the token
\* verifies until its expiry.
C12_TokenSnapshot ==
    (/\ TokenChecked
     /\ call.now < call.issue.now + call.issue.expires_in * TicksPerSecond) =>
        /\ ~call.ret.raised
        /\ call.ret.payload.tier = call.issue.tier
        /\ call.ret.payload.permitted_actions = call.issue.permitted_actions
        /\ 2 * call.ret.payload.trust_score <= 2 * call.issue.composite_score + (Scale \div 1000)
        /\ 2 * call.ret.payload.trust_score >= 2 * call.issue.composite_score - (Scale \div 1000)

\* A token verified after the agent's tier and score moved away from it
C12_Witness ==
    /\ TokenChecked
    /\ call.now > call.issue.now
    /\ ~call.ret.raised
    /\ agents[call.issue.agent_id].tier # call.ret.payload.tier
    /\ agents[call.issue.agent_id].composite_score # call.issue.composite_score

GetAgentPcs == {"ra_get_agent", "az_get_agent", "ab_get_agent", "it_get_agent", "tb_get_agent"}

AgentOps == {"record_action", "authorize", "authorize_batch", "issue_token", "trust_breakdown"}

\* C13: record_action, authorize, authorize_batch (for any action list), issue_token
\* and the trust breakdown, given an id no agent is registered under, fail with
\* NotFound and leave agents, receipts and trust history unchanged.
C13_NotFound ==
    [][/\ \A t \in Tasks :
            (/\ tasks[t].pc \in GetAgentPcs
             /\ tasks[t].req.agent_id \notin DOMAIN agents
             /\ tasks'[t] # tasks[t])
                => /\ tasks'[t] = Idle
                   /\ response'.status = "404"
                   /\ response'.op \in AgentOps
                   /\ UNCHANGED dbvars
       /\ (/\ response' # response
           /\ response'.op = "authorize_batch"
           /\ response'.status = "200")
              => response'.body.agent_id \in DOMAIN agents]_vars

\* No malformed request got past validation: none is being handled and none
\* left a row behind
NothingMalformed ==
    /\ \A t \in Tasks :
          /\ tasks[t].pc \in RegisterPcs \cup {"reg_create"} => tasks[t].req.capabilities > 0
          /\ tasks[t].pc \in RecordPcs
                => tasks[t].req.result \in {"success", "failure", "violation"}
    /\ \A a \in DOMAIN agents : agents[a].capabilities > 0
    /\ \A i \in DOMAIN receipts : receipts[i].result \in {"success", "failure", "violation"}

\* C14: a register request with an empty capability set and a record_action
\* request with a result other than success, failure, violation are rejected
\* with a validation error before any state mutation: the step that answers 422
\* changes no agent, receipt, history point, score or tier, and no such request
\* is ever handled further.
C14_ValidationFirst ==
    [][/\ NothingMalformed'
       /\ (response'.status = "422" /\ response' # response)
              => /\ UNCHANGED <<agents, receipts, history, tiers, next_receipt>>
                 /\ \A t \in Tasks : tasks'[t] = tasks[t] \/ tasks'[t] = Idle]_vars

\* A record_action request with an invalid result was refused after receipts
\* had been recorded
C14_Witness ==
    /\ response.status = "422"
    /\ response.op = "record_action"
    /\ Len(receipts) > 0
    /\ Quiescent

\* The actions named in a list
Requested(actions) == {actions[i] : i \in DOMAIN actions}

\* C15: authorize_batch(agent, actions) returns a map with exactly one entry
\* per distinct requested action, each entry equal to the decision
\* authorize(agent, action) gives for that action alone; evaluating one action
\* never changes the decision for another, and no step of the batch changes an
\* agent's score or tier, a receipt, a history point or the tier table.
C15_BatchIndependent ==
    [][\A t \in Tasks :
          (tasks[t].pc \in BatchPcs /\ tasks'[t] # tasks[t])
             => /\ UNCHANGED <<agents, receipts, history, tiers, next_receipt>>
                /\ (tasks'[t] = Idle /\ response'.status = "200")
                      => LET req == tasks[t].req
                             results == response'.body.results
                         IN  /\ response'.op = "authorize_batch"
                             /\ response'.body.agent_id = req.agent_id
                             /\ DOMAIN results = Requested(req.actions)
                             /\ \A a \in DOMAIN results :
                                   results[a] = AuthorizationResponse(req.agent_id,
                                                                      agents[req.agent_id], a)]_vars

\* A batch answered with two entries, one allowing and one denying
C15_Witness ==
    /\ response.status = "200"
    /\ response.op = "authorize_batch"
    /\ Cardinality(DOMAIN response.body.results) = 2
    /\ \E a, b \in DOMAIN response.body.results :
          /\ response.body.results[a].allowed
          /\ ~response.body.results[b].allowed

\* C16: authorize takes the requirement of a known action from the static
\* policy table and, for any action absent from the table, applies the default
\* requirement (tier 1, score 0.3): an unknown action is denied to every tier-0
\* agent and to every agent with score below 0.3, and allowed to every agent
\* with tier >= 1 and score >= 0.3.
C16_DefaultPolicy ==
    [][\A t \in Tasks :
          (tasks[t].pc \in AuthorizePcs /\ tasks'[t] = Idle /\ response'.status = "200")
             => LET req == tasks[t].req
                    agent == agents[req.agent_id]
                    body == response'.body
                IN  /\ response'.op = "authorize"
                    /\ body.action = req.action
                    /\ body.current_tier = agent.tier
                    /\ body.current_score = agent.composite_score
                    /\ req.action \in DOMAIN ActionPolicies
                          => /\ body.required_tier = ActionPolicies[req.action].tier
                             /\ body.required_score = ActionPolicies[req.action].score
                             /\ body.allowed <=> /\ agent.tier >= body.required_tier
                                                 /\ agent.composite_score >= body.required_score
                    /\ req.action \notin DOMAIN ActionPolicies
                          => /\ body.required_tier = 1
                             /\ body.required_score = (3 * Scale) \div 10
                             /\ (agent.tier = 0 \/ agent.composite_score < (3 * Scale) \div 10)
                                   => ~body.allowed
                             /\ (agent.tier >= 1 /\ agent.composite_score >= (3 * Scale) \div 10)
                                   => body.allowed]_vars

\* An action missing from the table was denied to a tier-0 agent
C16_Witness ==
    /\ response.status = "200"
    /\ response.op = "authorize"
    /\ response.body.action \notin DOMAIN ActionPolicies
    /\ response.body.current_tier = 0
    /\ ~response.body.allowed

\* The receipts stored under an id
ReceiptsWithId(id) == {i \in DOMAIN receipts : receipts[i].id = id}

\* C17: record_action is append-only and non-idempotent: every completed call
\* on a registered agent adds exactly one new receipt with a fresh id (two calls
\* with identical arguments add two receipts), and no operation ever modifies
\* or removes a receipt that already exists.
C17_AppendOnly ==
    [][/\ Len(receipts') \in {Len(receipts), Len(receipts) + 1}
       /\ SubSeq(receipts', 1, Len(receipts)) = receipts
       /\ Len(receipts') = Len(receipts) + 1
             => /\ ReceiptsWithId(receipts'[Len(receipts')].id) = {}
                /\ \E t \in Tasks :
                      /\ tasks[t].pc = "ra_create"
                      /\ tasks'[t].pc = "ra_get_receipts"
                      /\ receipts'[Len(receipts')].id = tasks[t].loc.receipt_id
                      /\ receipts'[Len(receipts')].agent_id = tasks[t].req.agent_id
       /\ \A t \in Tasks :
             /\ (tasks[t].pc = "ra_create" /\ tasks'[t] # tasks[t])
                   => Len(receipts') = Len(receipts) + 1
             /\ (tasks[t].pc = "ra_notify" /\ tasks'[t] = Idle)
                   => Cardinality(ReceiptsWithId(tasks[t].loc.receipt_id)) = 1]_vars

\* Two calls with the same agent, action, result and timestamp left two receipts
C17_Witness ==
    /\ Quiescent
    /\ response.status = "200"
    /\ response.op = "record_action"
    /\ \E i, j \in DOMAIN receipts :
          /\ i < j
          /\ receipts[i].id # receipts[j].id
          /\ receipts[i].agent_id = receipts[j].agent_id
          /\ receipts[i].action = receipts[j].action
          /\ receipts[i].result = receipts[j].result
          /\ receipts[i].timestamp = receipts[j].timestamp

\* C18: after any sequence of update_tier operations the tier table stays
\* non-overlapping and monotonically ordered by score range: for tiers a < b,
\* min_score(a) < min_score(b) and max_score(a) <= min_score(b), and each tier
\* has min_score <= max_score.
C18_TiersOrdered ==
    /\ \A n \in DOMAIN tiers : tiers[n].min_score <= tiers[n].max_score
    /\ \A a, b \in DOMAIN tiers :
          a < b => /\ tiers[a].min_score < tiers[b].min_score
                   /\ tiers[a].max_score <= tiers[b].min_score

\* The agents with no recorded action
Unrecorded == {a \in DOMAIN agents : \A i \in DOMAIN receipts : receipts[i].agent_id # a}

\* C19: a newly registered agent starts with low trust whatever identity facts
\* it declares: with the default weights and the default tiers, an agent with
\* no recorded action is in tier 0 or 1, never in tier 2 (Trusted) or tier 3
\* (Privileged).
C19_NewAgentLow ==
    (tier_updates = 0 /\ tiers = DefaultTiers)
       => \A a \in Unrecorded : agents[a].tier \in {0, 1}

\* C20: calculate_behavior_score on an empty receipt history returns exactly
\* 0.0 with total_actions = 0 (never a neutral 0.5), and register stores
\* behavior_score 0.0 for a new agent: every agent with no recorded action has
\* behavior_score 0 in its row, and its trust breakdown reports behavior_score
\* 0 and total_actions 0.
C20_EmptyBehavior ==
    /\ calculate_behavior_score(<<>>) = 0
    /\ behavior_total_actions(<<>>) = 0
    /\ \A a \in Unrecorded : agents[a].behavior_score = 0
    /\ \A t \in Tasks :
          (tasks[t].pc = "tb_get_tier" /\ tasks[t].req.agent_id \in Unrecorded)
             => /\ tasks[t].loc.behavior_score = 0
                /\ tasks[t].loc.total_actions = 0
    /\ (/\ response.status = "200"
        /\ response.op = "trust_breakdown"
        /\ response.body.total_actions = 0)
          => response.body.behavior_score = 0

\* The breakdown of a registered agent with no recorded action was returned
C20_Witness ==
    /\ response.status = "200"
    /\ response.op = "trust_breakdown"
    /\ response.body.agent_id \in Unrecorded
    /\ response.body.total_actions = 0
    /\ agents[response.body.agent_id].identity_score > 0

\* The sum of f[i] over the indices i in S
RECURSIVE SumOver(_, _)
SumOver(f, S) ==
    IF S = {} THEN 0
    ELSE LET i == CHOOSE j \in S : TRUE IN f[i] + SumOver(f, S \ {i})

\* C21: for a non-empty newest-first history, calculate_behavior_score equals
\* (sum over i of c_i * 0.95^i) / (sum over i of 0.95^i) clamped to [0,1], with
\* c_i = 1.0 for success, 0.3 for failure, -1.0 for violation (here to the unit
\* of Scale, rounded down); so the result is always in [0,1], a history of only
\* successes scores 1.0, only violations scores 0.0, and [success, success,
\* violation] scores 1.0475 / 2.8525.
C21_WeightedAverage ==
    (Returned("calculate_behavior_score") /\ Len(call.args.results) > 0) =>
        LET results == call.args.results
            n == Len(results)
            idx == 0..(n - 1)
            \* 0.95^i = 19^i / 20^i, over the common denominator 20^(n-1)
            w == [i \in idx |-> Pow(19, i) * Pow(20, n - 1 - i)]
            \* c_i in tenths
            c == [i \in idx |-> CASE results[i + 1] = "success" -> 10
                                  [] results[i + 1] = "failure" -> 3
                                  [] results[i + 1] = "violation" -> -10]
            num == SumOver([i \in idx |-> c[i] * w[i]], idx)
            den == 10 * SumOver(w, idx)
            score == call.ret.score
        IN  /\ score \in 0..Scale
            /\ num <= 0 => score = 0
            /\ num >= den => score = Scale
            \* the quotient num / den to four decimal places, two at a time
            /\ (0 < num /\ num < den)
                  => score = ((num * 100) \div den) * 100
                             + ((((num * 100) % den) * 100) \div den)
            /\ (\A i \in idx : results[i + 1] = "success") => score = Scale
            /\ (\A i \in idx : results[i + 1] = "violation") => score = 0
            /\ results = <<"success", "success", "violation">>
                  => score = (10475 * Scale) \div 28525

\* The score of [success, success, violation] was computed
C21_Witness ==
    /\ Returned("calculate_behavior_score")
    /\ call.args.results = <<"success", "success", "violation">>
    /\ call.ret.score > 0
    /\ call.ret.score < Scale

\* C22: calculate_identity_score equals 0.15*has_name + 0.15*has_provider
\* + 0.15*has_config_hash + 0.15*has_capabilities
\* + 0.10*min(capability_count/10, 1) + 0.15*has_identity_reference
\* + 0.15*attestation_strength (x509 1.0, jwt 0.9, api_key 0.6, any other type
\* 0.3, none 0.0), capped at 1.0; it is always in [0,1], a missing identity
\* reference or attestation contributes 0, and an agent with all required
\* fields, at least 10 capabilities and neither optional field scores 0.70.
C22_IdentityFormula ==
    Returned("calculate_identity_score") =>
        LET agent == call.args.agent
            B(present) == IF present THEN 1 ELSE 0
            \* attestation strength in tenths
            strength == IF ~agent.attestation.some THEN 0
                        ELSE CASE agent.attestation.val = "x509" -> 10
                               [] agent.attestation.val = "jwt" -> 9
                               [] agent.attestation.val = "api_key" -> 6
                               [] OTHER -> 3
            \* the weighted sum in thousandths
            sum == 150 * B(agent.name # <<>>) + 150 * B(agent.provider # <<>>)
                   + 150 * B(agent.config_hash # <<>>) + 150 * B(agent.capabilities > 0)
                   + 10 * (IF agent.capabilities < 10 THEN agent.capabilities ELSE 10)
                   + 150 * B(agent.spiffe_id.some) + 15 * strength
            score == call.ret.score
        IN  /\ score \in 0..Scale
            /\ score = (IF sum > 1000 THEN 1000 ELSE sum) * (Scale \div 1000)
            /\ (/\ agent.name # <<>> /\ agent.provider # <<>> /\ agent.config_hash # <<>>
                /\ agent.capabilities >= 10
                /\ ~agent.spiffe_id.some /\ ~agent.attestation.some)
                  => score = (70 * Scale) \div 100

\* The score of a complete agent with twelve capabilities, no identity reference
\* and no attestation was computed
C22_Witness ==
    /\ Returned("calculate_identity_score")
    /\ call.args.agent.name # <<>>
    /\ call.args.agent.provider # <<>>
    /\ call.args.agent.config_hash # <<>>
    /\ call.args.agent.capabilities > 10
    /\ ~call.args.agent.spiffe_id.some
    /\ ~call.args.agent.attestation.some
    /\ call.ret.score = (70 * Scale) \div 100

\* 0.3*identity + 0.2*config + 0.5*behavior clamped to [0,1]
WeightedClamp(identity, config, behavior) ==
    LET sum == (3 * identity + 2 * config + 5 * behavior) \div 10
    IN  IF sum < 0 THEN 0 ELSE IF sum > Scale THEN Scale ELSE sum

\* C23: calculate_composite_score returns 0.3*identity + 0.2*config
\* + 0.5*behavior clamped to [0,1] and applies no floor: for inputs in [0,1] it
\* can return values below 0.1 (0.0 for all-zero inputs); the 0.1 floor is
\* applied by the callers register and record_action, before tier resolution
\* and before the score is stored.
C23_FloorByCaller ==
    /\ Returned("calculate_composite_score")
          => /\ call.ret = WeightedClamp(call.args.identity, call.args.config,
                                         call.args.behavior)
             /\ (call.args.identity = 0 /\ call.args.config = 0 /\ call.args.behavior = 0)
                   => call.ret = 0
    /\ \A t \in Tasks :
          /\ tasks[t].pc \in {"reg_get_tiers", "reg_update", "ra_get_tiers", "ra_update"}
                => LET loc == tasks[t].loc
                       raw == WeightedClamp(loc.identity_score, loc.config_score,
                                            loc.behavior_score)
                   IN  loc.composite = IF raw < SybilFloor THEN SybilFloor ELSE raw
          /\ tasks[t].pc \in {"reg_update", "ra_update"}
                => tasks[t].loc.tier = determine_tier(tasks[t].loc.composite, get_tiers)
    /\ \A a \in DOMAIN agents : agents[a].composite_score >= SybilFloor

\* The formula returned a value below the floor, beside a gateway that
\* recorded an action
C23_Witness ==
    /\ Returned("calculate_composite_score")
    /\ call.ret < SybilFloor
    /\ call.args.config > 0
    /\ Len(receipts) > 0
    /\ Quiescent

\* C24: get_permitted_actions_for_tier(tier, tiers) returns the permission
\* list of the table entry whose tier number equals tier; if that list contains
\* the wildcard '*' it returns exactly ['*'] regardless of the other entries; if
\* no entry has that tier number it returns the empty list.
C24_PermittedActions ==
    Returned("get_permitted_actions_for_tier") =>
        LET tl == call.args.tiers
            rows == {i \in DOMAIN tl : tl[i].tier = call.args.tier}
        IN  /\ Cardinality(rows) <= 1
            /\ rows = {} => call.ret = <<>>
            /\ \A i \in rows :
                  IF \E k \in DOMAIN tl[i].permissions : tl[i].permissions[k] = "*"
                  THEN call.ret = <<"*">>
                  ELSE call.ret = tl[i].permissions

\* A row listing the wildcard among other permissions was collapsed to ['*']
C24_Witness ==
    /\ Returned("get_permitted_actions_for_tier")
    /\ call.ret = <<"*">>
    /\ \E i \in DOMAIN call.args.tiers :
          /\ call.args.tiers[i].tier = call.args.tier
          /\ Len(call.args.tiers[i].permissions) > 1

\* C25: notifications follow the committed state change: in every execution of
\* record_action the new receipt is stored and the agent's scores and tier are
\* written before any WebSocket broadcast or webhook for that action is sent,
\* and in register the agent's scores are written before the registration
\* broadcast; a failing broadcast or webhook delivery never undoes or fails the
\* committed change.
C25_NotifyAfterCommit ==
    [][\A t \in Tasks :
          \* the sends come right after the write of the scores
          /\ (tasks'[t].pc = "ra_notify" /\ tasks[t].pc # "ra_notify")
                => /\ tasks[t].pc = "ra_update"
                   /\ agents'[tasks[t].req.agent_id].composite_score = tasks'[t].loc.composite
                   /\ agents'[tasks[t].req.agent_id].tier = tasks'[t].loc.tier
          /\ (tasks'[t].pc = "reg_broadcast" /\ tasks[t].pc # "reg_broadcast")
                => /\ tasks[t].pc = "reg_update"
                   /\ agents'[tasks[t].loc.agent_id].composite_score = tasks'[t].loc.composite
                   /\ agents'[tasks[t].loc.agent_id].tier = tasks'[t].loc.tier
          \* the step that sends finds the change stored and leaves it stored,
          \* and answers 200 whether or not the sends went through
          /\ (tasks[t].pc = "ra_notify" /\ tasks'[t] # tasks[t])
                => /\ ReceiptsWithId(tasks[t].loc.receipt_id) # {}
                   /\ \E i \in DOMAIN history :
                         history[i] = HistoryPoint(tasks[t].req.agent_id,
                                                   tasks[t].loc.composite, tasks[t].loc.tier)
                   /\ UNCHANGED <<agents, receipts, history, tiers>>
                   /\ tasks'[t] = Idle
                   /\ response'.status = "200"
                   /\ response'.sent # <<>>
          /\ (tasks[t].pc = "reg_broadcast" /\ tasks'[t] # tasks[t])
                => /\ \E i \in DOMAIN history :
                         history[i] = HistoryPoint(tasks[t].loc.agent_id,
                                                   tasks[t].loc.composite, tasks[t].loc.tier)
                   /\ UNCHANGED <<agents, receipts, history, tiers>>
                   /\ tasks'[t] = Idle
                   /\ response'.status = "200"
                   /\ response'.sent # <<>>]_vars

\* record_action returned although a send had failed, with its receipt stored
C25_Witness ==
    /\ Quiescent
    /\ response.status = "200"
    /\ response.op = "record_action"
    /\ ~response.delivered
    /\ Len(response.sent) > 1
    /\ Len(receipts) > 0

\* The tier_changed events among the messages sent
TierChanged(sent) == {i \in DOMAIN sent : sent[i].type = "tier_changed"}

\* C26: record_action emits a tier-changed event exactly when the tier it
\* writes for the agent differs from the tier the agent had stored immediately
\* before that write, and the event carries that old tier and the new tier;
\* this holds also when record_action calls for the same agent overlap.
C26_TierChangedEvent ==
    [][\A t \in Tasks :
          (tasks[t].pc = "ra_notify" /\ tasks'[t] = Idle)
             => LET loc == tasks[t].loc
                    sent == response'.sent
                IN  /\ (TierChanged(sent) # {}) <=> (loc.tier # loc.stored_tier)
                    /\ \A i \in TierChanged(sent) :
                          /\ sent[i].old_tier = loc.stored_tier
                          /\ sent[i].new_tier = loc.tier]_vars

\* C27: trust builds through successes and falls through violations: for any
\* receipt history, recording one more action as the newest receipt never
\* lowers the agent's behavior score and composite score when its result is
\* success, and never raises them when its result is violation.
C27_Monotone ==
    Returned("rescore") =>
        /\ call.args.result = "success"
              => /\ call.ret.after.behavior_score >= call.ret.before.behavior_score
                 /\ call.ret.after.composite_score >= call.ret.before.composite_score
        /\ call.args.result = "violation"
              => /\ call.ret.after.behavior_score <= call.ret.before.behavior_score
                 /\ call.ret.after.composite_score <= call.ret.before.composite_score

\* A success raised both scores of an agent with a mixed history
C27_Witness ==
    /\ Returned("rescore")
    /\ call.args.result = "success"
    /\ Len(call.args.results) > 1
    /\ call.ret.before.behavior_score > 0
    /\ call.ret.after.behavior_score > call.ret.before.behavior_score
    /\ call.ret.after.composite_score > call.ret.before.composite_score

\* C28: in every state where no operation is in progress, each registered
\* agent's stored tier equals determine_tier(stored composite_score, current
\* tier table), after any sequence of register, record_action and update_tier
\* operations.
C28_TierMatchesScore ==
    Quiescent =>
        \A a \in DOMAIN agents :
            agents[a].tier = determine_tier(agents[a].composite_score, get_tiers)

\* The actions a permitted-action list covers: those it lists, or any action
\* when the list is ['*']
Covers(permitted_actions, action) ==
    \/ permitted_actions = <<"*">>
    \/ \E i \in DOMAIN permitted_actions : permitted_actions[i] = action

\* C29: a token never grants more than the gate: with the default tier table
\* and policy table, for every agent state (tier, composite_score) with
\* tier = determine_tier(composite_score), every policy-table action that
\* issue_token's permitted-action list covers (listed explicitly, or any action
\* when the list is ['*']) is also allowed by authorize for that same agent
\* state.
C29_TokenWithinGate ==
    Returned("grant") =>
        \A a \in DOMAIN ActionPolicies :
            Covers(call.ret.permitted_actions, a) => call.ret.allowed[a]

\* C30: sign_receipt binds the whole field tuple: two calls with different
\* (agent_id, action, result, timestamp, previous_hash) tuples - including
\* tuples whose fields contain the '|' delimiter, and a previous_hash that is
\* absent versus the empty string - never sign the same message, so a signature
\* valid for one tuple never verifies for a different tuple.
C30_BindsTuple ==
    (/\ Returned("verify_receipt")
     /\ call.kind \in {"tampered", "regrouped"}
     /\ call.args # call.signed) =>
        /\ ReceiptMessage(call.args.agent_id, call.args.action, call.args.result,
                          call.args.timestamp, call.args.previous_hash)
             # ReceiptMessage(call.signed.agent_id, call.signed.action, call.signed.result,
                              call.signed.timestamp, call.signed.previous_hash)
        /\ ~call.ret

====
